---- MODULE Spec2Model ----
(***************************************************************************)
(* Verification model of aerospike-admin:                                  *)
(*   - the partition-map analyzer (lib/basiccontroller.py,                 *)
(*     ShowPmapController) and its namespace aggregation,                  *)
(*   - the node client (lib/client/node.py, Node): connect and the typed   *)
(*     info operations.                                                    *)
(* Each subsystem has its own specification over the shared variables.     *)
(***************************************************************************)
EXTENDS Integers, Sequences, FiniteSets, TLC

VARIABLES
    phase,            \* which step of the modelled command has been taken
    pmap_info,        \* node -> partition-info reply (or an Exception)
    namespace_stats,  \* namespace -> node -> namespace statistics (or Exception)
    versions,         \* node -> server version
    ns_info,          \* result of _get_namespace_data
    pmap_data,        \* result of _get_pmap_data
    node,             \* the fields of a Node object
    seed,             \* arguments of the last connect(address, port)
    lastCall,         \* outcome of the last Node operation
    trace,            \* what the last connect did about the peers
    replies,          \* the server's reply to each discovery command
    socket_pool,      \* Node.socket_pool, the sockets and Node.pool_lock
    callers,          \* the threads that call info or close on the node
    latency,          \* the rows and the total rows of a latency histogram
    snapshot,         \* what the getters returned and the snapshot made of it
    credentials,      \* the credential file and the system credentials of a node
    health            \* the health command: its clock, its store, its queries

vars == <<phase, pmap_info, namespace_stats, versions, ns_info, pmap_data,
          node, seed, lastCall, trace, replies,
          socket_pool, callers, latency, snapshot, credentials, health>>

pmapVars == <<pmap_info, namespace_stats, versions, ns_info, pmap_data>>
nodeVars == <<node, seed, lastCall>>
poolVars == <<socket_pool, callers>>
\* everything of the node client
\* the state of the controllers
ctlVars == <<snapshot, credentials, health>>
clientVars == <<nodeVars, trace, replies, poolVars, latency, ctlVars>>

(***************************************************************************)
(* Bounds of the model.                                                    *)
(***************************************************************************)
\* number of partitions of a namespace (4096 in the program, scaled down)
pid_range == 2
\* total number of partition-info records over all replies
MaxRecords == 3

Nodes == {"A", "B"}
\* Orders in which a dict keyed by node may be iterated.
NodeOrders == {<<"A", "B">>, <<"B", "A">>}
Namespaces == {"test", "bar"}

Abs(x) == IF x < 0 THEN -x ELSE x
Max(a, b) == IF a < b THEN b ELSE a

(***************************************************************************)
(* Partition-info replies.  A reply is a sequence of records (the ';'      *)
(* separated items), a record a sequence of string fields (the ':'         *)
(* separated fields).                                                      *)
(***************************************************************************)
ObjValues == {0, 198000, 200000}
IntDomain == ((0 - pid_range - 1) .. (pid_range + 1)) \cup ObjValues

\* int(): the integer a decimal string denotes
IntTable == [s \in {ToString(i) : i \in IntDomain} |->
                CHOOSE i \in IntDomain : ToString(i) = s]
IsInt(s) == s \in DOMAIN IntTable
ParseInt(s) == IntTable[s]

\* header record of the partition-info reply of server 3.9 onwards
HeaderRecord == <<"namespace", "partition", "state", "replica", "n_dupl",
                  "origin", "target", "emigrates", "immigrates", "records">>

\* a data record; o8/o9 are the fields at (0-based) positions 8 and 9
MkRec(ns, pid, state, replica, o8, o9) ==
    <<ns, ToString(pid), state, ToString(replica), "0", "0", "0", "0",
      ToString(o8), ToString(o9)>>

(***************************************************************************)
(* ShowPmapController._get_namespace_data                                  *)
(***************************************************************************)
\* statistics of one namespace on one node: an Exception, or the parameters
StatsError == [err |-> TRUE, master |-> 0, prole |-> 0, repl |-> 0]
StatsOf(m, p, r) == [err |-> FALSE, master |-> m, prole |-> p, repl |-> r]

RECURSIVE sum_objects(_, _, _, _)
\* the loop of lines 749-755 over nodes.values(), in iteration order ord
sum_objects(nodes, ord, i, acc) ==
    IF i > Len(ord) THEN acc
    ELSE LET params == nodes[ord[i]]
         IN IF params.err
            THEN sum_objects(nodes, ord, i + 1, acc)
            ELSE sum_objects(nodes, ord, i + 1,
                     [master_objs  |-> acc.master_objs + params.master,
                      replica_objs |-> acc.replica_objs + params.prole,
                      repl_factor  |-> Max(acc.repl_factor, params.repl)])

\* tolerance without the floor of 1024
tolerance_no_floor(avg) == (avg * 1) \div 100

\* diff = avg * disc_pct_allowed / 100, raised to 1024 when below it
tolerance(avg) ==
    LET diff == (avg * 1) \div 100
    IN IF diff < 1024 THEN 1024 ELSE diff

ns_data(nodes, ord) ==
    LET t == sum_objects(nodes, ord, 1,
                 [master_objs |-> 0, replica_objs |-> 0, repl_factor |-> 0])
        avg_master == t.master_objs \div 4096
        avg_replica == t.replica_objs \div 4096
    IN [avg_master_objs  |-> avg_master,
        avg_replica_objs |-> avg_replica,
        repl_factor      |-> t.repl_factor,
        diff_master      |-> tolerance(avg_master),
        diff_replica     |-> tolerance(avg_replica)]

_get_namespace_data(stats, ord) ==
    [ns \in DOMAIN stats |-> ns_data(stats[ns], ord)]

(***************************************************************************)
(* ShowPmapController._get_pmap_data                                       *)
(***************************************************************************)
EmptyMap == [x \in {} |-> 0]
Extend(f, k, v) == [x \in (DOMAIN f) \cup {k} |-> IF x = k THEN v ELSE f[x]]

required_names == <<"namespace", "partition", "state", "replica", "records">>
\* default index in partition fields for server < 3.6.1
default_indices ==
    [ns_index |-> 0, pid_index |-> 1, state_index |-> 2, pindex_index |-> 3,
     objects_index |-> 9]

Contains(fields, name) == \E i \in 1..Len(fields) : fields[i] = name
\* list.index(): 0-based position of the first occurrence
IndexOf(fields, name) ==
    (CHOOSE i \in 1..Len(fields) :
        fields[i] = name /\ \A j \in 1..(i - 1) : fields[j] # name) - 1

is_header(fields) ==
    \A k \in 1..Len(required_names) : Contains(fields, required_names[k])
\* the header taken for a data record of server 3.6.1
header_indices_positional(fields) ==
    [default_indices EXCEPT !.objects_index = 8]

header_indices(fields) ==
    [ns_index      |-> IndexOf(fields, "namespace"),
     pid_index     |-> IndexOf(fields, "partition"),
     state_index   |-> IndexOf(fields, "state"),
     pindex_index  |-> IndexOf(fields, "replica"),
     objects_index |-> IndexOf(fields, "records")]

\* LooseVersion(a) >= LooseVersion(b) on three-component versions
VersionGE(a, b) ==
    \/ a[1] > b[1]
    \/ a[1] = b[1] /\ a[2] > b[2]
    \/ a[1] = b[1] /\ a[2] = b[2] /\ a[3] >= b[3]

\* partitions.split(';') : the empty reply splits into one empty item
split_items(items) == IF items = <<>> THEN << <<"">> >> ELSE items

NoRecord ==
    [ok |-> FALSE, ns |-> "", pid |-> 0, state |-> "", pindex |-> 0, objects |-> 0]
\* lines 819-821: field access by index and int(); ok = FALSE when the
\* access raises IndexError or int() raises ValueError
parse_fields(fields, f) ==
    LET inb == \A k \in {f.ns_index, f.pid_index, f.state_index,
                          f.pindex_index, f.objects_index} : k + 1 <= Len(fields)
    IN IF ~inb THEN NoRecord
       ELSE IF ~(IsInt(fields[f.pid_index + 1]) /\ IsInt(fields[f.pindex_index + 1])
                 /\ IsInt(fields[f.objects_index + 1]))
       THEN NoRecord
       ELSE [ok      |-> TRUE,
             ns      |-> fields[f.ns_index + 1],
             pid     |-> ParseInt(fields[f.pid_index + 1]),
             state   |-> fields[f.state_index + 1],
             pindex  |-> ParseInt(fields[f.pindex_index + 1]),
             objects |-> ParseInt(fields[f.objects_index + 1])]

new_node_ns ==
    [pri_index |-> 0, sec_index |-> 0, master_disc_part |-> <<>>,
     replica_disc_part |-> <<>>, missing_part |-> <<>>]

\* range(repl_factor) for every partition id
new_missing(repl_factor) ==
    [pid \in 0..(pid_range - 1) |-> [i \in 1..repl_factor |-> i - 1]]

\* the test with >= in place of >
is_dist_delta_reaches(exp, act, diff) == Abs(exp - act) >= diff

is_dist_delta_exeeds(exp, act, diff) == Abs(exp - act) > diff

\* list.remove(x): drops the first occurrence
list_remove(lst, x) ==
    LET i == CHOOSE k \in 1..Len(lst) :
                 lst[k] = x /\ \A j \in 1..(k - 1) : lst[j] # x
    IN [k \in 1..(Len(lst) - 1) |-> IF k < i THEN lst[k] ELSE lst[k + 1]]

\* Python list indexing of a list of length pid_range: -1 if IndexError
list_slot(pid) ==
    IF pid >= 0 /\ pid < pid_range THEN pid
    ELSE IF pid < 0 /\ pid >= 0 - pid_range THEN pid + pid_range
    ELSE -1

\* lines 838-855: the counters and discrepancy lists of one SYNC record
count_record(entry, rec, info) ==
    LET e1 == IF rec.pindex = 0
              THEN [entry EXCEPT
                      !.pri_index = @ + 1,
                      !.master_disc_part =
                          IF info.avg_master_objs = 0 /\ rec.objects = 0 THEN @
                          ELSE IF is_dist_delta_exeeds(info.avg_master_objs,
                                       rec.objects, info.diff_master)
                          THEN Append(@, rec.pid) ELSE @]
              ELSE entry
    IN IF rec.pindex \in 1..(info.repl_factor - 1)
       THEN [e1 EXCEPT
               !.sec_index = @ + 1,
               !.replica_disc_part =
                   IF info.avg_replica_objs = 0 /\ rec.objects = 0 THEN @
                   ELSE IF is_dist_delta_exeeds(info.avg_replica_objs,
                                rec.objects, info.diff_replica)
                   THEN Append(@, rec.pid) ELSE @]
       ELSE e1

\* line 857 under the try of line 837: IndexError and ValueError are dropped
remove_missing(missing_ns, rec) ==
    LET slot == list_slot(rec.pid)
    IN IF slot = -1 THEN missing_ns
       ELSE IF ~Contains(missing_ns[slot], rec.pindex) THEN missing_ns
       ELSE [missing_ns EXCEPT ![slot] = list_remove(@, rec.pindex)]

\* Lines 801-862, the body of the loop over the items of one reply.
\* st: raised (an exception left the loop), index_set, f_indices, node_pmap,
\* and missing, the ns_missing_part shared by all nodes.
process_item(st, fields, version, info) ==
    IF st.raised THEN st
    ELSE IF ~st.index_set /\ is_header(fields)
    THEN [st EXCEPT !.index_set = TRUE, !.f_indices = header_indices(fields)]
    ELSE
      LET f == IF ~st.index_set /\ VersionGE(version, <<3, 6, 1>>)
               THEN [st.f_indices EXCEPT !.objects_index = 8]
               ELSE st.f_indices
          rec == parse_fields(fields, f)
      IN IF ~rec.ok \/ rec.ns \notin DOMAIN info
         THEN [st EXCEPT !.raised = TRUE, !.index_set = TRUE, !.f_indices = f]
         ELSE
           LET ns == rec.ns
               pmap0 == IF ns \in DOMAIN st.node_pmap THEN st.node_pmap
                        ELSE Extend(st.node_pmap, ns, new_node_ns)
               miss0 == IF ns \in DOMAIN st.missing THEN st.missing
                        ELSE Extend(st.missing, ns,
                                 new_missing(info[ns].repl_factor))
           IN [raised    |-> FALSE,
               index_set |-> TRUE,
               f_indices |-> f,
               node_pmap |-> IF rec.state = "S"
                             THEN [pmap0 EXCEPT
                                     ![ns] = count_record(@, rec, info[ns])]
                             ELSE pmap0,
               missing   |-> IF rec.state = "S"
                             THEN [miss0 EXCEPT ![ns] = remove_missing(@, rec)]
                             ELSE miss0]

RECURSIVE process_items(_, _, _, _, _)
process_items(st, items, i, version, info) ==
    IF i > Len(items) THEN st
    ELSE process_items(process_item(st, items[i], version, info),
                       items, i + 1, version, info)

\* the entries of the partitions in descending order of the partition id
RECURSIVE format_missing_descending(_, _)
format_missing_descending(part_data, pid) ==
    IF pid >= pid_range THEN <<>>
    ELSE format_missing_descending(part_data, pid + 1)
         \o [i \in 1..Len(part_data[pid]) |-> <<pid, part_data[pid][i]>>]

\* _format_missing_part: "pid:S:pindex" entries, here <<pid, pindex>> pairs
RECURSIVE _format_missing_part(_, _)
_format_missing_part(part_data, pid) ==
    IF pid >= pid_range THEN <<>>
    ELSE [i \in 1..Len(part_data[pid]) |-> <<pid, part_data[pid][i]>>]
         \o _format_missing_part(part_data, pid + 1)

\* the loop with node_pmap created once, before the loop over the nodes
RECURSIVE process_nodes_shared_pmap(_, _, _, _, _, _)
process_nodes_shared_pmap(g, info_map, ord, i, vers, info) ==
    IF i > Len(ord) \/ g.raised THEN g
    ELSE LET n == ord[i]
         IN IF info_map[n].err
            THEN process_nodes_shared_pmap(g, info_map, ord, i + 1, vers, info)
            ELSE LET st == process_items(
                               [raised |-> FALSE, index_set |-> FALSE,
                                f_indices |-> default_indices,
                                node_pmap |->
                                    IF i > 1 /\ ord[i - 1] \in DOMAIN g.pmap_data
                                    THEN g.pmap_data[ord[i - 1]] ELSE EmptyMap,
                                missing |-> g.missing],
                               split_items(info_map[n].items), 1, vers[n], info)
                 IN process_nodes_shared_pmap(
                        [raised    |-> st.raised,
                         pmap_data |-> Extend(g.pmap_data, n, st.node_pmap),
                         missing   |-> st.missing],
                        info_map, ord, i + 1, vers, info)

\* Lines 787-864, the loop over pmap_info.items() in iteration order ord.
\* g: raised, pmap_data, missing
RECURSIVE process_nodes(_, _, _, _, _, _)
process_nodes(g, info_map, ord, i, vers, info) ==
    IF i > Len(ord) \/ g.raised THEN g
    ELSE LET n == ord[i]
         IN IF info_map[n].err
            THEN process_nodes(g, info_map, ord, i + 1, vers, info)
            ELSE LET st == process_items(
                               [raised |-> FALSE, index_set |-> FALSE,
                                f_indices |-> default_indices,
                                node_pmap |-> EmptyMap, missing |-> g.missing],
                               split_items(info_map[n].items), 1, vers[n], info)
                 IN process_nodes(
                        [raised    |-> st.raised,
                         pmap_data |-> Extend(g.pmap_data, n, st.node_pmap),
                         missing   |-> st.missing],
                        info_map, ord, i + 1, vers, info)

\* the report when an exception leaves _get_pmap_data
Raised == [raised |-> TRUE, data |-> EmptyMap]

_get_pmap_data(info_map, info, vers, ord) ==
    LET g == process_nodes([raised |-> FALSE, pmap_data |-> EmptyMap,
                            missing |-> EmptyMap],
                           info_map, ord, 1, vers, info)
    IN IF g.raised THEN Raised
       ELSE [raised |-> FALSE,
             data |-> [n \in DOMAIN g.pmap_data |->
                         [ns \in DOMAIN g.pmap_data[n] |->
                             [g.pmap_data[n][ns] EXCEPT
                                !.missing_part =
                                    _format_missing_part(g.missing[ns], 0)]]]]

\* CliView.show_pmap: one table row per node and namespace
show_pmap(data) ==
    {[Node |-> n, Namespace |-> ns,
      pri_index |-> data[n][ns].pri_index,
      sec_index |-> data[n][ns].sec_index,
      missing_part |-> data[n][ns].missing_part,
      master_disc_part |-> data[n][ns].master_disc_part,
      replica_disc_part |-> data[n][ns].replica_disc_part] :
        <<n, ns>> \in {x \in (DOMAIN data) \X Namespaces : x[2] \in DOMAIN data[x[1]]}}

(***************************************************************************)
(* Inputs of the partition-map command.                                    *)
(***************************************************************************)
\* Records a node may list in its partition-info reply.
RecordSet ==
    {MkRec("test", p, "S", 0, 198000, 198000) : p \in 1..(pid_range - 1)}
    \cup {MkRec("test", 0, "S", 0, 0, 0),
          MkRec("test", 0, "S", 0, 0, 200000),
          MkRec("test", -1, "S", 0, 200000, 200000),
          MkRec("test", pid_range, "S", 0, 200000, 200000),
          MkRec("test", 0, "S", 1, 0, 0),
          MkRec("test", 1, "D", 0, 200000, 200000),
          MkRec("bar", 0, "S", 0, 200000, 200000)}

\* Namespace statistics and versions of the cluster the command runs on.
Scenarios ==
    { \* both nodes answer: replication factor 2, 200000 objects a partition
      [stats |-> [ns \in Namespaces |->
                    [n \in Nodes |-> StatsOf(409600000, 409600000, 2)]],
       vers  |-> [n \in Nodes |-> IF n = "A" THEN <<3, 7, 5>> ELSE <<3, 5, 0>>]],
      \* one node fails to answer, the other holds an empty namespace
      [stats |-> [ns \in Namespaces |->
                    [n \in Nodes |-> IF n = "A" THEN StatsError
                                     ELSE StatsOf(0, 0, 1)]],
       vers  |-> [n \in Nodes |-> IF n = "A" THEN <<3, 5, 0>> ELSE <<3, 6, 1>>]],
      \* no node answers the namespace statistics
      [stats |-> [ns \in Namespaces |-> [n \in Nodes |-> StatsError]],
       vers  |-> [n \in Nodes |-> <<3, 9, 0>>]] }

NoReport == [raised |-> FALSE, data |-> EmptyMap]
NodeIdle == [alive |-> FALSE]
\* the peers commands of connect are not recorded
Untraced ==
    [on |-> FALSE, connected |-> FALSE, changed |-> FALSE, issued |-> <<>>,
     last |-> [exc |-> FALSE, val |-> <<>>]]

\* no socket pool, no calling thread and no histogram are modelled
NoPool == [open |-> FALSE]
NoCallers == <<>>
NoLatency == <<>>
\* no snapshot, no credential file and no health command are modelled
NoSnapshot == <<>>
NoCredentials == <<>>
NoHealth == <<>>

TotalRecords == Len(pmap_info["A"].items) + Len(pmap_info["B"].items)

InitPmap ==
    /\ phase = "input"
    /\ pmap_info = [n \in Nodes |-> [err |-> FALSE, items |-> <<>>]]
    /\ \E sc \in Scenarios :
          /\ namespace_stats = sc.stats
          /\ versions = sc.vers
    /\ ns_info = EmptyMap
    /\ pmap_data = NoReport
    /\ node = NodeIdle
    /\ seed = <<>>
    /\ lastCall = <<>>
    /\ trace = Untraced
    /\ socket_pool = NoPool
    /\ callers = NoCallers
    /\ snapshot = NoSnapshot
    /\ credentials = NoCredentials
    /\ health = NoHealth
    /\ latency = NoLatency
    /\ replies = EmptyMap

\* A node's partition-info reply lists one more record.
ReplyRecord(n, r) ==
    /\ phase = "input"
    /\ ~pmap_info[n].err
    /\ TotalRecords < MaxRecords
    /\ pmap_info' = [pmap_info EXCEPT ![n].items = Append(@, r)]
    /\ UNCHANGED <<phase, namespace_stats, versions, ns_info, pmap_data>>
    /\ UNCHANGED clientVars

\* A node's partition-info reply starts with the header record.
ReplyHeader(n) ==
    /\ pmap_info[n].items = <<>>
    /\ ReplyRecord(n, HeaderRecord)

\* The partition-info call on a node returns an Exception.
ReplyError(n) ==
    /\ phase = "input"
    /\ ~pmap_info[n].err
    /\ pmap_info[n].items = <<>>
    /\ pmap_info' = [pmap_info EXCEPT ![n].err = TRUE]
    /\ UNCHANGED <<phase, namespace_stats, versions, ns_info, pmap_data>>
    /\ UNCHANGED clientVars

\* ShowPmapController._do_default, line 724
ShowPmap ==
    /\ phase = "input"
    /\ phase' = "done"
    /\ \E ord1 \in NodeOrders, ord2 \in NodeOrders :
          /\ ns_info' = _get_namespace_data(namespace_stats, ord1)
          /\ pmap_data' = _get_pmap_data(pmap_info, ns_info', versions, ord2)
    /\ UNCHANGED <<pmap_info, namespace_stats, versions>>
    /\ UNCHANGED clientVars

NextPmap ==
    \/ \E n \in Nodes, r \in RecordSet : ReplyRecord(n, r)
    \/ \E n \in Nodes : ReplyHeader(n)
    \/ \E n \in Nodes : ReplyError(n)
    \/ ShowPmap

SpecPmap == InitPmap /\ [][NextPmap]_vars

(***************************************************************************)
(* The input of the partition-map command as the claims describe it.       *)
(***************************************************************************)
Answered == {n \in Nodes : ~pmap_info[n].err}
PmapDone == phase = "done" /\ ~pmap_data.raised
Report == pmap_data.data

FirstItem(n) == split_items(pmap_info[n].items)[1]
HasHeader(n) == is_header(FirstItem(n))
\* the records of a reply that are data: all but a leading header
DataItems(n) ==
    IF HasHeader(n) THEN Tail(pmap_info[n].items)
    ELSE split_items(pmap_info[n].items)
NodeIndices(n) ==
    IF HasHeader(n) THEN header_indices(FirstItem(n))
    ELSE IF VersionGE(versions[n], <<3, 6, 1>>)
    THEN [default_indices EXCEPT !.objects_index = 8]
    ELSE default_indices
Rec(n, i) == parse_fields(DataItems(n)[i], NodeIndices(n))
RecIds(n) == 1..Len(DataItems(n))

InRange(pid) == pid >= 0 /\ pid < pid_range
ReplFactor(ns) == ns_info[ns].repl_factor

\* node n lists a record of ns in state S for partition pid, replica ridx
Reports(n, ns, pid, ridx) ==
    \E i \in RecIds(n) :
        /\ Rec(n, i).ns = ns /\ Rec(n, i).state = "S"
        /\ Rec(n, i).pid = pid /\ Rec(n, i).pindex = ridx
SyncReported(ns, pid, ridx) == \E n \in Answered : Reports(n, ns, pid, ridx)

SeqToSet(q) == {q[i] : i \in 1..Len(q)}
ReportEntries == {<<n, ns>> \in Nodes \X Namespaces :
                     n \in DOMAIN Report /\ ns \in DOMAIN Report[n]}

\* the sum of f[x] over the x in S
RECURSIVE SetSum(_, _)
SetSum(S, f) ==
    IF S = {} THEN 0
    ELSE LET x == CHOOSE y \in S : TRUE IN f[x] + SetSum(S \ {x}, f)

\* C1: after all replies are processed, missing_part of a namespace with
\* replication factor R lists exactly the pairs (pid, ridx), 0 <= pid <
\* pid_range, 0 <= ridx < R, that no node reported in state S.
C1_MissingPartExact ==
    PmapDone =>
      \A e \in ReportEntries :
         SeqToSet(Report[e[1]][e[2]].missing_part) =
            {pr \in (0..(pid_range - 1)) \X (0..(ReplFactor(e[2]) - 1)) :
                ~SyncReported(e[2], pr[1], pr[2])}

\* the same statement for replies whose partition ids are all legal
AllPidsLegal ==
    \A n \in Answered : \A i \in RecIds(n) : InRange(Rec(n, i).pid)
C1_MissingPartExactLegalPids ==
    (PmapDone /\ AllPidsLegal) =>
      \A e \in ReportEntries :
         SeqToSet(Report[e[1]][e[2]].missing_part) =
            {pr \in (0..(pid_range - 1)) \X (0..(ReplFactor(e[2]) - 1)) :
                ~SyncReported(e[2], pr[1], pr[2])}

\* every pair (pid, ridx) of the namespace is reported in state S once
ReportsOf(ns, pid, ridx) ==
    {x \in UNION {{n} \X RecIds(n) : n \in Answered} :
        /\ Rec(x[1], x[2]).ns = ns /\ Rec(x[1], x[2]).state = "S"
        /\ Rec(x[1], x[2]).pid = pid /\ Rec(x[1], x[2]).pindex = ridx}
Healthy(ns) ==
    /\ ReplFactor(ns) >= 1
    /\ \A pid \in 0..(pid_range - 1), ridx \in 0..(ReplFactor(ns) - 1) :
          Cardinality(ReportsOf(ns, pid, ridx)) = 1

NodesWith(ns) == {n \in DOMAIN Report : ns \in DOMAIN Report[n]}
PriTotal(ns) ==
    SetSum(NodesWith(ns), [n \in NodesWith(ns) |-> Report[n][ns].pri_index])
SecTotal(ns) ==
    SetSum(NodesWith(ns), [n \in NodesWith(ns) |-> Report[n][ns].sec_index])

\* C2: for a healthy namespace with replication factor R the pri_index of
\* all nodes sum to pid_range, the sec_index to pid_range * (R - 1), and
\* missing_part is empty on every node.
C2_HealthyCoverage ==
    PmapDone =>
      \A ns \in Namespaces :
         Healthy(ns) =>
           /\ PriTotal(ns) = pid_range
           /\ SecTotal(ns) = pid_range * (ReplFactor(ns) - 1)
           /\ \A n \in NodesWith(ns) : Report[n][ns].missing_part = <<>>

\* the same statement for replies whose partition ids are all legal
C2_HealthyCoverageLegalPids ==
    (PmapDone /\ AllPidsLegal) =>
      \A ns \in Namespaces :
         Healthy(ns) =>
           /\ PriTotal(ns) = pid_range
           /\ SecTotal(ns) = pid_range * (ReplFactor(ns) - 1)
           /\ \A n \in NodesWith(ns) : Report[n][ns].missing_part = <<>>

\* the state-S records of ns in node n's reply with lo <= replica <= hi
SyncIds(n, ns, lo, hi) ==
    {i \in RecIds(n) :
        /\ Rec(n, i).ns = ns /\ Rec(n, i).state = "S"
        /\ Rec(n, i).pindex >= lo /\ Rec(n, i).pindex <= hi}
LegalIds(n) == {i \in RecIds(n) : InRange(Rec(n, i).pid)}

\* C3: a record whose partition id is outside [0, pid_range) is ignored:
\* it is counted in neither pri_index nor sec_index, its id is in neither
\* discrepancy list, and it removes no replica of an in-range partition
\* from the missing structure.
C3_IllegalPidIgnored ==
    PmapDone =>
      \A e \in ReportEntries :
         LET n == e[1]
             ns == e[2]
             r == Report[n][ns]
         IN /\ r.pri_index = Cardinality(SyncIds(n, ns, 0, 0) \cap LegalIds(n))
            /\ r.sec_index =
                  Cardinality(SyncIds(n, ns, 1, ReplFactor(ns) - 1) \cap LegalIds(n))
            /\ \A k \in 1..Len(r.master_disc_part) : InRange(r.master_disc_part[k])
            /\ \A k \in 1..Len(r.replica_disc_part) : InRange(r.replica_disc_part[k])
            /\ \A pr \in (0..(pid_range - 1)) \X (0..(ReplFactor(ns) - 1)) :
                  ~SyncReported(ns, pr[1], pr[2]) => pr \in SeqToSet(r.missing_part)

\* the partition ids of the records I of node n, in the order of the reply
RECURSIVE PidsOf(_, _, _)
PidsOf(n, I, i) ==
    IF i > Len(DataItems(n)) THEN <<>>
    ELSE (IF i \in I THEN <<Rec(n, i).pid>> ELSE <<>>) \o PidsOf(n, I, i + 1)

MasterTest(ns, rec) ==
    /\ ~(ns_info[ns].avg_master_objs = 0 /\ rec.objects = 0)
    /\ Abs(ns_info[ns].avg_master_objs - rec.objects) > ns_info[ns].diff_master
ReplicaTest(ns, rec) ==
    /\ ~(ns_info[ns].avg_replica_objs = 0 /\ rec.objects = 0)
    /\ Abs(ns_info[ns].avg_replica_objs - rec.objects) > ns_info[ns].diff_replica
MasterDisc(n, ns) ==
    {i \in SyncIds(n, ns, 0, 0) : MasterTest(ns, Rec(n, i))}
ReplicaDisc(n, ns) ==
    {i \in SyncIds(n, ns, 1, ReplFactor(ns) - 1) : ReplicaTest(ns, Rec(n, i))}

\* C4 as stated: the discrepancy lists hold the records that pass the
\* test, and only state-S records with replica < repl_factor are counted in
\* pri_index or sec_index.
C4_DiscrepancyAsStated ==
    PmapDone =>
      \A e \in ReportEntries :
         LET n == e[1]
             ns == e[2]
             r == Report[n][ns]
         IN /\ r.master_disc_part = PidsOf(n, MasterDisc(n, ns), 1)
            /\ r.replica_disc_part = PidsOf(n, ReplicaDisc(n, ns), 1)
            /\ r.pri_index + r.sec_index =
                  Cardinality(SyncIds(n, ns, 0, ReplFactor(ns) - 1))

\* C4 (amended): the discrepancy lists hold the records that pass the test;
\* pri_index counts the state-S records with replica 0 whatever the
\* replication factor, sec_index those with 0 < replica < repl_factor; no
\* other record is counted or listed.
C4_Discrepancy ==
    PmapDone =>
      \A e \in ReportEntries :
         LET n == e[1]
             ns == e[2]
             r == Report[n][ns]
         IN /\ r.master_disc_part = PidsOf(n, MasterDisc(n, ns), 1)
            /\ r.replica_disc_part = PidsOf(n, ReplicaDisc(n, ns), 1)
            /\ r.pri_index = Cardinality(SyncIds(n, ns, 0, 0))
            /\ r.sec_index = Cardinality(SyncIds(n, ns, 1, ReplFactor(ns) - 1))

\* a node lists a discrepant master, a discrepant replica, a record that
\* passes no test and a record in another state
C4_Witness ==
    /\ PmapDone
    /\ \E e \in ReportEntries : Report[e[1]][e[2]].master_disc_part # <<>>
    /\ \E e \in ReportEntries : Report[e[1]][e[2]].replica_disc_part # <<>>
    /\ \E n \in Answered : \E i \in RecIds(n) : Rec(n, i).state # "S"

Ascending(q) == \A i \in 1..(Len(q) - 1) : q[i] <= q[i + 1]

\* C6: in the rows that show_pmap emits, master_disc_part and
\* replica_disc_part of every (node, namespace) are in ascending
\* partition-id order.
C6_DiscPartsAscending ==
    PmapDone =>
      \A row \in show_pmap(Report) :
         /\ Ascending(row.master_disc_part)
         /\ Ascending(row.replica_disc_part)

PairBefore(a, b) == a[1] < b[1] \/ (a[1] = b[1] /\ a[2] < b[2])

\* C7: the entries of missing_part are in ascending order of (pid, ridx).
C7_MissingPartAscending ==
    PmapDone =>
      \A e \in ReportEntries :
         LET m == Report[e[1]][e[2]].missing_part
         IN \A i \in 1..(Len(m) - 1) : PairBefore(m[i], m[i + 1])

\* replicas were removed and several entries of several partitions remain
C7_Witness ==
    /\ PmapDone
    /\ \E e \in ReportEntries :
          LET m == Report[e[1]][e[2]].missing_part
          IN /\ Len(m) >= 2
             /\ m[1][1] # m[Len(m)][1]
             /\ \E pid \in 0..(pid_range - 1) : SyncReported(e[2], pid, 0)

Other(n) == IF n = "A" THEN "B" ELSE "A"
Swap(f) == [n \in Nodes |-> f[Other(n)]]
SwapStats == [ns \in DOMAIN namespace_stats |-> Swap(namespace_stats[ns])]
\* rep is the report pmap_data with the records of the two nodes exchanged
Exchanged(rep) ==
    /\ rep.raised = pmap_data.raised
    /\ DOMAIN rep.data = {Other(n) : n \in DOMAIN Report}
    /\ \A n \in DOMAIN Report : rep.data[Other(n)] = Report[n]

\* C8 as stated: swapping the partition-info replies and the namespace
\* statistics of the two nodes exchanges their records in the report and
\* leaves missing_part of every namespace unchanged.
C8_SwapRepliesAsStated ==
    phase = "done" =>
      \A ord1 \in NodeOrders, ord2 \in NodeOrders :
         Exchanged(_get_pmap_data(Swap(pmap_info),
                       _get_namespace_data(SwapStats, ord1), versions, ord2))

\* C8 (amended): swapping the partition-info replies, the namespace
\* statistics and the version replies of the two nodes exchanges their
\* records in the report and leaves missing_part unchanged.
C8_SwapNodes ==
    phase = "done" =>
      \A ord1 \in NodeOrders, ord2 \in NodeOrders :
         Exchanged(_get_pmap_data(Swap(pmap_info),
                       _get_namespace_data(SwapStats, ord1), Swap(versions), ord2))

\* both nodes answered with different replies and have different records
C8_Witness ==
    /\ PmapDone
    /\ Answered = Nodes
    /\ pmap_info["A"] # pmap_info["B"]
    /\ versions["A"] # versions["B"]
    /\ Report["A"] # Report["B"]
    /\ \E ns \in Namespaces : namespace_stats[ns]["A"] # namespace_stats[ns]["B"]

(***************************************************************************)
(* The namespace statistics on their own: cluster.info_namespace_statistics*)
(* collects one entry per node, _get_namespace_data aggregates them.       *)
(***************************************************************************)
MasterValues == {0, 4095, 20480017, 419635200}
ProleValues == {0, 419635200}
ReplValues == {1, 2, 3}

InitNs ==
    /\ phase = "stats"
    /\ pmap_info = [n \in Nodes |-> [err |-> FALSE, items |-> <<>>]]
    /\ namespace_stats = [ns \in {"test"} |-> EmptyMap]
    /\ versions = [n \in Nodes |-> <<3, 9, 0>>]
    /\ ns_info = EmptyMap
    /\ pmap_data = NoReport
    /\ node = NodeIdle
    /\ seed = <<>>
    /\ lastCall = <<>>
    /\ trace = Untraced
    /\ socket_pool = NoPool
    /\ callers = NoCallers
    /\ snapshot = NoSnapshot
    /\ credentials = NoCredentials
    /\ health = NoHealth
    /\ latency = NoLatency
    /\ replies = EmptyMap

\* a node answers the namespace statistics
StatsAnswer(ns, n, m, p, r) ==
    /\ phase = "stats"
    /\ n \notin DOMAIN namespace_stats[ns]
    /\ namespace_stats' =
          [namespace_stats EXCEPT ![ns] = Extend(@, n, StatsOf(m, p, r))]
    /\ UNCHANGED <<phase, pmap_info, versions, ns_info, pmap_data>>
    /\ UNCHANGED clientVars

\* the namespace statistics of a node are an Exception
StatsFail(ns, n) ==
    /\ phase = "stats"
    /\ n \notin DOMAIN namespace_stats[ns]
    /\ namespace_stats' = [namespace_stats EXCEPT ![ns] = Extend(@, n, StatsError)]
    /\ UNCHANGED <<phase, pmap_info, versions, ns_info, pmap_data>>
    /\ UNCHANGED clientVars

\* _get_namespace_data on the collected statistics
NamespaceData ==
    /\ phase = "stats"
    /\ \A ns \in DOMAIN namespace_stats : DOMAIN namespace_stats[ns] = Nodes
    /\ phase' = "nsdone"
    /\ \E ord \in NodeOrders : ns_info' = _get_namespace_data(namespace_stats, ord)
    /\ UNCHANGED <<pmap_info, namespace_stats, versions, pmap_data>>
    /\ UNCHANGED clientVars

NextNs ==
    \/ \E n \in Nodes, m \in MasterValues, p \in ProleValues, r \in ReplValues :
          StatsAnswer("test", n, m, p, r)
    \/ \E n \in Nodes : StatsFail("test", n)
    \/ NamespaceData

SpecNs == InitNs /\ [][NextNs]_vars

StatsAnswered(ns) == {n \in Nodes : ~namespace_stats[ns][n].err}
MasterTotal(ns) ==
    SetSum(StatsAnswered(ns), [n \in Nodes |-> namespace_stats[ns][n].master])
ProleTotal(ns) ==
    SetSum(StatsAnswered(ns), [n \in Nodes |-> namespace_stats[ns][n].prole])
MaxRepl(ns) ==
    IF StatsAnswered(ns) = {} THEN 0
    ELSE CHOOSE r \in {namespace_stats[ns][n].repl : n \in StatsAnswered(ns)} :
            \A n \in StatsAnswered(ns) : namespace_stats[ns][n].repl <= r

\* q = floor(x / d)
IsFloorDiv(q, x, d) == q * d <= x /\ x < (q + 1) * d

\* C5 as stated: avg_master = total / 4096, avg_replica likewise,
\* repl_factor the maximum over the answering nodes, and the tolerances
\* max(1024, 1% of the average).
C5_NamespaceDataAsStated ==
    phase = "nsdone" =>
      \A ns \in DOMAIN ns_info :
         LET i == ns_info[ns]
         IN /\ i.avg_master_objs * 4096 = MasterTotal(ns)
            /\ i.avg_replica_objs * 4096 = ProleTotal(ns)
            /\ i.repl_factor = MaxRepl(ns)
            /\ i.diff_master * 100 = Max(102400, i.avg_master_objs)
            /\ i.diff_replica * 100 = Max(102400, i.avg_replica_objs)

\* C5 (amended): the divisions are integer divisions: avg_master =
\* floor(total / 4096), avg_replica likewise, repl_factor the maximum over
\* the answering nodes, and the tolerances max(1024, floor(average / 100)).
C5_NamespaceData ==
    phase = "nsdone" =>
      \A ns \in DOMAIN ns_info :
         LET i == ns_info[ns]
         IN /\ IsFloorDiv(i.avg_master_objs, MasterTotal(ns), 4096)
            /\ IsFloorDiv(i.avg_replica_objs, ProleTotal(ns), 4096)
            /\ i.repl_factor = MaxRepl(ns)
            /\ IF i.avg_master_objs < 102400 THEN i.diff_master = 1024
               ELSE IsFloorDiv(i.diff_master, i.avg_master_objs, 100)
            /\ IF i.avg_replica_objs < 102400 THEN i.diff_replica = 1024
               ELSE IsFloorDiv(i.diff_replica, i.avg_replica_objs, 100)

\* both nodes answer with different replication factors, and the master
\* tolerance is above the floor of 1024 and not exactly 1% of the average
C5_Witness ==
    /\ phase = "nsdone"
    /\ StatsAnswered("test") = Nodes
    /\ namespace_stats["test"]["A"].repl # namespace_stats["test"]["B"].repl
    /\ ns_info["test"].diff_master > 1024
    /\ ns_info["test"].diff_master * 100 # ns_info["test"].avg_master_objs

(***************************************************************************)
(* The node client, lib/client/node.py.                                    *)
(*                                                                         *)
(* The result of a call is a record: raised (an exception left the call),  *)
(* kind (what was returned) and alive (the node's alive flag afterwards).  *)
(***************************************************************************)
Returned(k, a) == [raised |-> FALSE, kind |-> k, alive |-> a]
Raises(a) == [raised |-> TRUE, kind |-> "none", alive |-> a]

\* a decorator that lets the exception through
lets_exceptions_through(r) == r

\* the decorator return_exceptions
return_exceptions(r) ==
    IF r.raised THEN Returned("exception", FALSE) ELSE r

\* What the socket layer does during one info command:
\*   conn  - _get_connection returns a socket or None
\*   exec  - sock.execute: a reply, the empty reply, -1, None, or it raises
\*   close - sock.close() returns or raises
\* (without a socket nothing is executed or closed)
SockEnvs ==
    {e \in [conn : {"sock", "none"},
            exec : {"data", "empty", "minus1", "null", "raises"},
            close : {"ok", "raises"}] :
        e.conn = "none" => (e.exec = "raises" /\ e.close = "ok")}
OkEnv == [conn |-> "sock", exec |-> "data", close |-> "ok"]
FailEnv == [conn |-> "none", exec |-> "raises", close |-> "ok"]
\* an info command fails unless a socket was got and it returned a reply
SockFails(env) ==
    env.conn = "none" \/ env.exec \in {"minus1", "null", "raises"}
    \/ env.close = "raises"

\* Node._info_cinfo under its decorators
info_cinfo_body(alive, env) ==
    IF env.conn = "none" THEN Raises(alive)
    ELSE IF env.exec = "raises" THEN Raises(alive)
    ELSE IF env.close = "raises" THEN Raises(alive)
    ELSE IF env.exec \in {"minus1", "null"} THEN Raises(alive)
    ELSE Returned(env.exec, alive)
_info_cinfo(alive, env) == return_exceptions(info_cinfo_body(alive, env))

\* Node.info
info(alive, env) == return_exceptions(_info_cinfo(alive, env))

\* Node.info_node
info_node(alive, env) == return_exceptions(info(alive, env))

\* util.info_to_dict / info_to_list applied to what info() returned: the
\* conversion returns some value (pe = "ok") or raises (pe = "raises")
util_parse(r, pe) ==
    IF pe = "raises" THEN Raises(r.alive)
    ELSE Returned("parsed", r.alive)

\* Node.info_statistics, and the operations of the same shape
info_statistics(alive, env, pe) ==
    return_exceptions(util_parse(info(alive, env), pe))

\* Node._info_services_helper
_info_services_helper(r, pe) ==
    return_exceptions(
        IF r.kind \in {"empty", "exception"} THEN Returned("emptylist", r.alive)
        ELSE IF pe = "raises" THEN Raises(r.alive)
        ELSE Returned("list", r.alive))

\* Node.info_services
info_services(alive, env, pe) ==
    return_exceptions(_info_services_helper(info(alive, env), pe))

\* Node.info_service(address, return_None)
info_service(alive, env, pe, return_None) ==
    LET r == info(alive, env)
    IN return_exceptions(
           IF r.kind = "data" /\ pe = "ok" THEN Returned("list", r.alive)
           ELSE IF return_None THEN Returned("None", r.alive)
           ELSE Returned("seedlist", r.alive))

(***************************************************************************)
(* Node construction and Node.connect.  An address is a host name or an    *)
(* IP; a service address is the pair <<ip, port>> (the TLS name is None).  *)
(***************************************************************************)
Ports == {3000}
HostNames == {"host1", "host2"}
IPs == {"ip1", "ip2"}
Addresses == HostNames \cup IPs
Seeds == {"host1", "ip1"}
\* socket.getaddrinfo as recorded in Node.dns_cache; the model keeps the
\* host names of the cache, an IP always resolves to itself
Resolve(address) ==
    IF address = "host1" THEN "ip1"
    ELSE IF address = "host2" THEN "ip2"
    ELSE address
FakeId == "000000000000000"
RealId == "BB9FC0A1D2E3F40"

\* Node.create_key (the IPv6 form does not arise for these addresses)
create_key(address, port) == <<address, port>>

\* the replies to `features`, `peers-generation` and the peers commands
ExcValue == [exc |-> TRUE, val |-> <<>>]
Value(v) == [exc |-> FALSE, val |-> v]
\* strings the program searches or splits are sequences of characters
PeersStr == <<"p", "e", "e", "r", "s">>
\* the replies "", "udf;peers" and "udf;xpeers"
FeatureReplies ==
    {ExcValue, Value(<<>>), Value(<<"u", "d", "f", ";">> \o PeersStr),
     Value(<<"u", "d", "f", ";", "x">> \o PeersStr)}
\* a in b for two strings
IsSubstring(a, b) ==
    \E i \in 0..(Len(b) - Len(a)) : \A k \in 1..Len(a) : b[i + k] = a[k]
GenerationReplies == {ExcValue, Value(<<1>>), Value(<<2>>)}
\* the `service` reply as info_service(address, return_None=True) returns
\* it: None (here <<>>), or the list of service addresses
ServiceLists ==
    {<<>>, <<<<"host2", 3000>>>>, <<<<"ip1", 3000>>, <<"ip2", 3000>>>>}
\* what happens when the loop of connect tries an address: the `node`
\* query answers ("ok") or fails ("fail"), or _update_IP raises ("dns",
\* for a host name that is not in the dns_cache)
TryOutcomes(a, dns_cache) ==
    IF a \in HostNames /\ a \notin dns_cache THEN {"ok", "fail", "dns"}
    ELSE {"ok", "fail"}
EnvOf(o) == IF o = "ok" THEN OkEnv ELSE FailEnv

(***************************************************************************)
(* Discovery of the peers.  srv is the server: its reply to each info      *)
(* command, an exception value (the command failed) or the list of the     *)
(* endpoints the reply names.  A call gives the commands it issued and     *)
(* its result.                                                             *)
(***************************************************************************)
PeersCommands ==
    {"peers-clear-std", "peers-tls-std", "alumni-clear-std", "alumni-tls-std",
     "peers-clear-alt", "peers-tls-alt"}
ServicesCommands == {"services", "services-alumni", "services-alternate"}
DiscoveryCommands == PeersCommands \cup ServicesCommands
\* the endpoint that only the reply to cmd names
ViewList(cmd) == <<<<cmd, 3000>>>>

Call(cmds, res) == [cmds |-> cmds, res |-> res]
\* self.info(cmd) on the server srv
info_reply(srv, cmd) == Call(<<cmd>>, srv[cmd])

\* util._parse_string on the reply of a peers command: a list, or it raises
\* for an exception value
parse_peers(reply) == reply

\* Node._info_peers_list_helper
_info_peers_list_helper(c) == Call(c.cmds, parse_peers(c.res))

\* Node.info_peers_list
info_peers_list(nd, srv) ==
    IF nd.enable_tls
    THEN _info_peers_list_helper(info_reply(srv, "peers-tls-std"))
    ELSE _info_peers_list_helper(info_reply(srv, "peers-clear-std"))

\* Node.info_alumni_peers_list
info_alumni_peers_list(nd, srv) ==
    IF nd.enable_tls
    THEN _info_peers_list_helper(info_reply(srv, "alumni-tls-std"))
    ELSE _info_peers_list_helper(info_reply(srv, "alumni-clear-std"))

\* Node.info_alternative_peers_list
info_alternative_peers_list(nd, srv) ==
    IF nd.enable_tls
    THEN _info_peers_list_helper(info_reply(srv, "peers-tls-alt"))
    ELSE _info_peers_list_helper(info_reply(srv, "peers-clear-alt"))

\* Node._info_services_helper on the value info() returned
services_of(c) ==
    Call(c.cmds, IF c.res.exc \/ c.res.val = <<>> THEN Value(<<>>) ELSE c.res)

\* Node.info_services, info_services_alt
services_peers(srv) == services_of(info_reply(srv, "services"))
services_alt_peers(srv) == services_of(info_reply(srv, "services-alternate"))
\* Node.info_services_alumni: nothing in its try block raises IOError
services_alumni_peers(srv) == services_of(info_reply(srv, "services-alumni"))

\* list + list, a TypeError when an operand is an exception value
plus(a, b) == IF a.exc \/ b.exc THEN ExcValue ELSE Value(a.val \o b.val)

\* get_alumni_peers that does not fall back to info_services
get_alumni_peers_no_fallback(nd, srv) ==
    IF nd.use_peers_list
    THEN LET alumni_peers == info_peers_list(nd, srv)
             more == info_alumni_peers_list(nd, srv)
         IN Call(alumni_peers.cmds \o more.cmds, plus(alumni_peers.res, more.res))
    ELSE services_alumni_peers(srv)

\* Node.get_alumni_peers
get_alumni_peers(nd, srv) ==
    IF nd.use_peers_list
    THEN LET alumni_peers == info_peers_list(nd, srv)
             more == info_alumni_peers_list(nd, srv)
         IN Call(alumni_peers.cmds \o more.cmds, plus(alumni_peers.res, more.res))
    ELSE LET alumni_services == services_alumni_peers(srv)
         IN IF alumni_services.res.val # <<>> /\ ~alumni_services.res.exc
            THEN alumni_services
            ELSE LET services == services_peers(srv)
                 IN Call(alumni_services.cmds \o services.cmds, services.res)

\* get_peers that does not look at use_services_alt
get_peers_always_standard(nd, srv) ==
    IF nd.use_peers_list THEN info_peers_list(nd, srv) ELSE services_peers(srv)

\* Node.get_peers
get_peers(nd, srv) ==
    IF nd.use_peers_list
    THEN IF nd.use_services_alt THEN info_alternative_peers_list(nd, srv)
         ELSE info_peers_list(nd, srv)
    ELSE IF nd.use_services_alt THEN services_alt_peers(srv)
         ELSE services_peers(srv)

\* Node._find_friend_nodes
_find_friend_nodes(nd, srv) ==
    IF nd.consider_alumni THEN get_alumni_peers(nd, srv) ELSE get_peers(nd, srv)

\* the keyword arguments consider_alumni, use_services_alt and ssl_context
Flags == [consider_alumni : BOOLEAN, use_services_alt : BOOLEAN, enable_tls : BOOLEAN]
DefaultFlags ==
    [consider_alumni |-> FALSE, use_services_alt |-> FALSE, enable_tls |-> FALSE]

\* Node.__init__ up to the call of connect
NewNode(address, port, flags) ==
    [ip |-> Resolve(address), port |-> port, node_id |-> "",
     key |-> create_key(address, port), alive |-> FALSE,
     peers |-> Value(<<>>), peers_generation |-> Value(<<-1>>),
     service_addresses |-> <<>>, features |-> Value(<<>>),
     use_peers_list |-> FALSE, dns_cache |-> {address} \cap HostNames,
     consider_alumni |-> flags.consider_alumni,
     use_services_alt |-> flags.use_services_alt,
     enable_tls |-> flags.enable_tls]

\* Node.is_feature_present
is_feature_present(nd, feature) ==
    IF nd.features.exc \/ nd.features.val = <<>> THEN FALSE
    ELSE IsSubstring(feature, nd.features.val)

\* Node.has_peers_changed: the node afterwards and the result
has_peers_changed(nd, new_generation) ==
    IF ~nd.use_peers_list THEN [node |-> nd, changed |-> TRUE]
    ELSE IF new_generation.exc \/ nd.peers_generation # new_generation
    THEN [node |-> [nd EXCEPT !.peers_generation = new_generation,
                              !.alive = IF new_generation.exc THEN FALSE ELSE @],
          changed |-> TRUE]
    ELSE [node |-> nd, changed |-> FALSE]

\* the except branch of connect, lines 210-223
fake_node(nd, address, port) ==
    [nd EXCEPT !.ip = address, !.port = port,
               !.key = create_key(address, port), !.node_id = FakeId,
               !.service_addresses = <<<<address, port>>>>,
               !.features = Value(<<>>), !.use_peers_list = FALSE,
               !.peers = Value(<<>>), !.alive = FALSE]

\* the loop of lines 184-199 from the i-th service address on; st holds
\* the node's ip, the local variable address, whether node_id is an id,
\* and the dns_cache
RECURSIVE try_addresses(_, _, _, _)
try_addresses(sa, i, st, tries) ==
    IF i > Len(sa) THEN st
    ELSE LET a == sa[i][1]
         IN IF tries[a] = "dns"
            THEN try_addresses(sa, i + 1, [st EXCEPT !.address = a], tries)
            ELSE LET r == info_node(TRUE, EnvOf(tries[a]))
                     st2 == [ip |-> Resolve(a), address |-> a,
                             id_ok |-> r.kind # "exception",
                             dns_cache |-> st.dns_cache \cup ({a} \cap HostNames)]
                 IN IF st2.id_ok THEN st2
                    ELSE try_addresses(sa, i + 1, st2, tries)

\* lines 171-183: the service addresses the loop goes through
service_list(nd, service) ==
    LET sa == IF service # <<>> THEN service ELSE nd.service_addresses
    IN IF sa = <<>> \/ ~Contains(sa, <<nd.ip, nd.port>>)
       THEN Append(sa, <<nd.ip, nd.port>>)
       ELSE sa

\* lines 203-209 after a `node` query of the loop succeeded: the node, the
\* result of has_peers_changed and the commands issued for the peers
connected_run(nd, sa, st, srv) ==
    LET nd1 == [nd EXCEPT !.ip = st.ip, !.node_id = RealId,
                          !.dns_cache = st.dns_cache,
                          !.service_addresses = sa,
                          !.key = create_key(st.ip, nd.port),
                          !.features = srv["features"]]
        nd2 == [nd1 EXCEPT !.use_peers_list = is_feature_present(nd1, PeersStr)]
        hp == has_peers_changed(nd2, srv["peers-generation"])
        friends == _find_friend_nodes(hp.node, srv)
    IN [node |-> [hp.node EXCEPT !.peers = IF hp.changed THEN friends.res ELSE @,
                                 !.alive = TRUE],
        connected |-> TRUE, changed |-> hp.changed,
        issued |-> IF hp.changed THEN friends.cmds ELSE <<>>]
connected(nd, sa, st, srv) == connected_run(nd, sa, st, srv).node

\* a connect that ended in the except branch
failed_run(nd) ==
    [node |-> nd, connected |-> FALSE, changed |-> FALSE, issued |-> <<>>]

\* Node.connect(address, port): the runs it can take, over all that the
\* network can do
connect_runs(nd, address, port, srv) ==
    UNION {
      IF info_node(nd.alive, EnvOf(first)).kind = "exception"
      THEN {failed_run(fake_node(nd, address, port))}
      ELSE
      LET sa == service_list(nd, service)
      IN UNION {
           LET st == try_addresses(sa, 1,
                         [ip |-> nd.ip, address |-> address, id_ok |-> TRUE,
                          dns_cache |-> nd.dns_cache], tries)
           IN IF ~st.id_ok
              THEN {failed_run(fake_node([nd EXCEPT !.ip = st.ip,
                                                    !.dns_cache = st.dns_cache,
                                                    !.service_addresses = sa],
                                         st.address, port))}
              ELSE {connected_run(nd, sa, st, srv)}
           : tries \in {t \in [SeqToSet([i \in 1..Len(sa) |-> sa[i][1]]) ->
                                      {"ok", "fail", "dns"}] :
                           \A a \in DOMAIN t : t[a] \in TryOutcomes(a, nd.dns_cache)}}
      : <<first, service>> \in {"ok", "fail"} \X ServiceLists}

\* the nodes Node.connect(address, port) can leave
connect(nd, address, port, srv) ==
    {r.node : r \in connect_runs(nd, address, port, srv)}

\* the record of a run of connect: last is the reply to the last peers
\* command issued
Observe(r) ==
    IF ~trace.on THEN trace
    ELSE [on |-> TRUE, connected |-> r.connected, changed |-> r.changed,
          issued |-> r.issued,
          last |-> IF r.issued # <<>> THEN r.node.peers ELSE trace.last]

\* a server that answers the discovery commands, with the replies f and g
\* to `features` and `peers-generation`
Server(f, g) ==
    [cmd \in DiscoveryCommands \cup {"features", "peers-generation"} |->
        IF cmd = "features" THEN f
        ELSE IF cmd = "peers-generation" THEN g
        ELSE Value(ViewList(cmd))]

InfoOps ==
    {"info", "info_node", "info_statistics", "info_services", "info_service"}
NoCall ==
    [op |-> "none", raised |-> FALSE, kind |-> "none",
     sockfail |-> FALSE, parsefail |-> FALSE]

InitNode ==
    /\ phase = "new"
    /\ pmap_info = [n \in Nodes |-> [err |-> FALSE, items |-> <<>>]]
    /\ namespace_stats = EmptyMap
    /\ versions = [n \in Nodes |-> <<3, 9, 0>>]
    /\ ns_info = EmptyMap
    /\ pmap_data = NoReport
    /\ node = NodeIdle
    /\ seed = <<>>
    /\ lastCall = NoCall
    /\ trace = Untraced
    /\ socket_pool = NoPool
    /\ callers = NoCallers
    /\ snapshot = NoSnapshot
    /\ credentials = NoCredentials
    /\ health = NoHealth
    /\ latency = NoLatency
    /\ replies \in {Server(f, Value(<<1>>)) : f \in FeatureReplies}

\* Node(address, port)
Construct(address, port, flags) ==
    /\ phase = "new"
    /\ phase' = "node"
    /\ seed' = <<address, port>>
    /\ \E r \in connect_runs(NewNode(address, port, flags), address, port, replies) :
          /\ node' = r.node
          /\ trace' = Observe(r)
    /\ lastCall' = NoCall
    /\ UNCHANGED <<pmapVars, replies, poolVars, latency, ctlVars>>

\* Node.refresh_connection
refresh_connection ==
    /\ phase = "node"
    /\ seed' = <<node.ip, node.port>>
    /\ \E r \in connect_runs(node, node.ip, node.port, replies) :
          /\ node' = r.node
          /\ trace' = Observe(r)
    /\ lastCall' = NoCall
    /\ UNCHANGED phase
    /\ UNCHANGED <<pmapVars, replies, poolVars, latency, ctlVars>>

\* an info operation after which the node is alive when it did not fail
InfoCall_revives(op, env, pe) ==
    /\ phase = "node"
    /\ LET r == CASE op = "info" -> info(node.alive, env)
                  [] op = "info_node" -> info_node(node.alive, env)
                  [] op = "info_statistics" -> info_statistics(node.alive, env, pe)
                  [] op = "info_services" -> info_services(node.alive, env, pe)
                  [] op = "info_service" ->
                        info_service(node.alive, env, pe, FALSE)
       IN /\ node' = [node EXCEPT !.alive = (r.kind # "exception" /\ ~SockFails(env))]
          /\ lastCall' = [op |-> op, raised |-> r.raised, kind |-> r.kind,
                          sockfail |-> SockFails(env),
                          parsefail |-> (pe = "raises")]
    /\ UNCHANGED <<phase, seed, trace, replies, poolVars, latency, ctlVars>>
    /\ UNCHANGED pmapVars

\* one typed info operation, over all that the socket and the parsing of
\* the reply can do
InfoCall(op, env, pe) ==
    /\ phase = "node"
    /\ LET r == CASE op = "info" -> info(node.alive, env)
                  [] op = "info_node" -> info_node(node.alive, env)
                  [] op = "info_statistics" -> info_statistics(node.alive, env, pe)
                  [] op = "info_services" -> info_services(node.alive, env, pe)
                  [] op = "info_service" ->
                        info_service(node.alive, env, pe, FALSE)
       IN /\ node' = [node EXCEPT !.alive = r.alive]
          /\ lastCall' = [op |-> op, raised |-> r.raised, kind |-> r.kind,
                          sockfail |-> SockFails(env),
                          parsefail |-> (pe = "raises")]
    /\ UNCHANGED <<phase, seed, trace, replies, poolVars, latency, ctlVars>>
    /\ UNCHANGED pmapVars

NextNode ==
    \/ \E address \in Seeds, port \in Ports : Construct(address, port, DefaultFlags)
    \/ refresh_connection
    \/ \E op \in InfoOps, env \in SockEnvs, pe \in {"ok", "raises"} :
          /\ op \in {"info", "info_node"} => pe = "ok"
          /\ InfoCall(op, env, pe)

SpecNode == InitNode /\ [][NextNode]_vars

TypeNode ==
    phase = "node" =>
       /\ node.ip \in Addresses /\ node.port \in Ports
       /\ node.node_id \in {FakeId, RealId}
       /\ node.alive \in BOOLEAN

\* C9: whenever connect(address, port) fails, the node is a placeholder
\* with node_id "000000000000000", alive = false, no peers, and the ip, the
\* port and the key of the address and port passed to connect.
C9_FakeNodeHasSeedAddress ==
    (phase = "node" /\ node.node_id = FakeId) =>
       /\ ~node.alive
       /\ node.peers = Value(<<>>)
       /\ node.ip = seed[1]
       /\ node.port = seed[2]
       /\ node.key = create_key(seed[1], seed[2])

\* the part of C9 that holds: placeholder id, not alive, no peers, and the
\* key is that of the node's ip and port
C9_FakeNodeShape ==
    (phase = "node" /\ node.node_id = FakeId) =>
       /\ ~node.alive
       /\ node.peers = Value(<<>>)
       /\ node.port = seed[2]
       /\ node.key = create_key(node.ip, node.port)
       /\ node.service_addresses = <<<<node.ip, node.port>>>>

Called == phase = "node" /\ lastCall.op # "none"
PassThroughOps == {"info", "info_node"}
ParsingOps == {"info_statistics"}
ServicesOps == {"info_services"}

C11_AliveOrFake ==
    phase = "node" => (node.alive \/ node.node_id = FakeId)

\* the part of C11 that connect and refresh_connection keep: right after
\* either of them the node is alive or a placeholder
C11_AliveOrFakeAfterConnect ==
    (phase = "node" /\ lastCall = NoCall) =>
       (node.alive <=> node.node_id = RealId)

(***************************************************************************)
(* Connects against a server whose features and peers generation change,   *)
(* with the peers commands of every connect recorded in trace.             *)
(***************************************************************************)
InitPeers ==
    /\ phase = "new"
    /\ pmap_info = [n \in Nodes |-> [err |-> FALSE, items |-> <<>>]]
    /\ namespace_stats = EmptyMap
    /\ versions = [n \in Nodes |-> <<3, 9, 0>>]
    /\ ns_info = EmptyMap
    /\ pmap_data = NoReport
    /\ node = NodeIdle
    /\ seed = <<>>
    /\ lastCall = NoCall
    /\ trace = [Untraced EXCEPT !.on = TRUE]
    /\ socket_pool = NoPool
    /\ callers = NoCallers
    /\ snapshot = NoSnapshot
    /\ credentials = NoCredentials
    /\ health = NoHealth
    /\ latency = NoLatency
    /\ replies = Server(Value(<<"u", "d", "f", ";">> \o PeersStr), Value(<<1>>))

\* the server's reply to a command changes
ServerChange(cmd, v) ==
    /\ replies[cmd] # v
    /\ replies' = [replies EXCEPT ![cmd] = v]
    /\ UNCHANGED <<phase, pmapVars, nodeVars, trace, poolVars, latency, ctlVars>>

NextPeers ==
    \/ \E address \in Seeds, port \in Ports : Construct(address, port, DefaultFlags)
    \/ refresh_connection
    \/ \E v \in FeatureReplies : ServerChange("features", v)
    \/ \E v \in GenerationReplies : ServerChange("peers-generation", v)

SpecPeers == InitPeers /\ [][NextPeers]_vars

\* a step that is a connect which completed on a node with the peers
\* feature and got a peers-generation reply
PeersConnect ==
    /\ replies' = replies
    /\ phase' = "node"
    /\ trace'.connected
    /\ node'.use_peers_list
    /\ ~replies["peers-generation"].exc

\* C12: on a node with the peers feature has_peers_changed returns true on
\* the first call and later iff the peers-generation reply differs from
\* the stored generation; connect issues a peers command only when it
\* returns true, and otherwise node.peers is the previously fetched list.
C12_GenerationGated ==
    [][PeersConnect =>
         /\ trace'.changed <=>
               (phase = "new" \/ node.peers_generation # replies["peers-generation"])
         /\ (trace'.issued # <<>>) <=> trace'.changed
         /\ ~trace'.changed => node'.peers = trace.last]_vars

\* the part of C12 that holds: the gate itself, with node.peers left as it
\* was against an unchanged generation
C12_GenerationGatedPeersKept ==
    [][PeersConnect =>
         /\ trace'.changed <=>
               (phase = "new" \/ node.peers_generation # replies["peers-generation"])
         /\ (trace'.issued # <<>>) <=> trace'.changed
         /\ ~trace'.changed => node'.peers = node.peers]_vars

\* s.split(';')
RECURSIVE Split(_, _)
Split(s, acc) ==
    IF s = <<>> THEN <<acc>>
    ELSE IF Head(s) = ";" THEN <<acc>> \o Split(Tail(s), <<>>)
    ELSE Split(Tail(s), Append(acc, Head(s)))
Tokens(s) == SeqToSet(Split(s, <<>>))

\* C14: after a successful connect use_peers_list is true iff peers is one
\* of the semicolon-separated tokens of the features reply; otherwise the
\* peers are discovered with the legacy services commands.
C14_PeersFeatureToken ==
    (phase = "node" /\ trace.connected) =>
       /\ node.use_peers_list <=>
             (~node.features.exc /\ PeersStr \in Tokens(node.features.val))
       /\ ~node.use_peers_list =>
             \A i \in 1..Len(trace.issued) : trace.issued[i] \in ServicesCommands

\* the part of C14 that holds: use_peers_list is true iff the features
\* reply is a string that contains peers
C14_PeersFeatureSubstring ==
    (phase = "node" /\ trace.connected) =>
       /\ node.use_peers_list <=>
             (~node.features.exc /\ IsSubstring(PeersStr, node.features.val))
       /\ ~node.use_peers_list =>
             \A i \in 1..Len(trace.issued) : trace.issued[i] \in ServicesCommands

(***************************************************************************)
(* Discovery of the friends of a connected node, over every combination    *)
(* of its flags and every server.                                          *)
(***************************************************************************)
\* the servers: a peers command fails or names its endpoint, a services
\* command fails, names nothing or names its endpoint
FriendServers ==
    {[cmd \in DOMAIN Server(ExcValue, ExcValue) |->
         IF cmd \in PeersCommands
         THEN (IF pf[cmd] THEN ExcValue ELSE Value(ViewList(cmd)))
         ELSE IF cmd \in ServicesCommands
         THEN (CASE sf[cmd] = "fails" -> ExcValue
                 [] sf[cmd] = "empty" -> Value(<<>>)
                 [] OTHER -> Value(ViewList(cmd)))
         ELSE IF cmd = "features" THEN f ELSE Value(<<1>>)] :
       pf \in [PeersCommands -> BOOLEAN],
       sf \in [ServicesCommands -> {"fails", "empty", "list"}],
       f \in {Value(<<>>), Value(PeersStr)}}

\* a node that connected to the server srv
FriendNode(flags, srv) ==
    LET nd == [NewNode("ip1", 3000, flags) EXCEPT
                  !.alive = TRUE, !.node_id = RealId, !.features = srv["features"]]
    IN [nd EXCEPT !.use_peers_list = is_feature_present(nd, PeersStr)]

InitFriends ==
    /\ phase = "friends"
    /\ pmap_info = [n \in Nodes |-> [err |-> FALSE, items |-> <<>>]]
    /\ namespace_stats = EmptyMap
    /\ versions = [n \in Nodes |-> <<3, 9, 0>>]
    /\ ns_info = EmptyMap
    /\ pmap_data = NoReport
    /\ replies \in FriendServers
    /\ \E flags \in Flags : node = FriendNode(flags, replies)
    /\ seed = <<"ip1", 3000>>
    /\ lastCall = NoCall
    /\ trace = Untraced
    /\ socket_pool = NoPool
    /\ callers = NoCallers
    /\ snapshot = NoSnapshot
    /\ credentials = NoCredentials
    /\ health = NoHealth
    /\ latency = NoLatency

\* node._find_friend_nodes()
FindFriends ==
    /\ phase = "friends"
    /\ LET r == _find_friend_nodes(node, replies)
       IN lastCall' = [op |-> "_find_friend_nodes", cmds |-> r.cmds, res |-> r.res]
    /\ UNCHANGED <<phase, pmapVars, node, seed, trace, replies, poolVars, latency, ctlVars>>

NextFriends == FindFriends

SpecFriends == InitFriends /\ [][NextFriends]_vars

Found == phase = "friends" /\ lastCall.op = "_find_friend_nodes"
Clear(tls, clear) == IF node.enable_tls THEN tls ELSE clear
\* the command of the view the flags select
ViewCommand ==
    IF node.consider_alumni
    THEN (IF node.use_peers_list THEN Clear("alumni-tls-std", "alumni-clear-std")
          ELSE "services-alumni")
    ELSE IF node.use_services_alt
    THEN (IF node.use_peers_list THEN Clear("peers-tls-alt", "peers-clear-alt")
          ELSE "services-alternate")
    ELSE (IF node.use_peers_list THEN Clear("peers-tls-std", "peers-clear-std")
          ELSE "services")
\* the candidates a reply names: those of a failed services command are none
Candidates(cmd) ==
    IF cmd \in ServicesCommands /\ replies[cmd].exc THEN Value(<<>>)
    ELSE replies[cmd]

\* C13: discovery issues the one command of the view that the flags
\* select (alumni, else alternate, else standard; peers form with the
\* peers feature, tls variant iff TLS, else the services form) and returns
\* the candidates of that view.
C13_ViewByFlagsAsStated ==
    Found =>
       /\ lastCall.cmds = <<ViewCommand>>
       /\ lastCall.res = Candidates(ViewCommand)

\* C13 as the code has it: the alternate and the standard view are as
\* stated; the alumni view with the peers feature issues the standard
\* peers command and then the alumni command and returns the two lists
\* joined (an exception value when either failed); the alumni view without
\* the peers feature returns the services-alumni candidates when there are
\* any and otherwise issues services too and returns its candidates.
C13_ViewByFlags ==
    Found =>
       IF ~node.consider_alumni
       THEN /\ lastCall.cmds = <<ViewCommand>>
            /\ lastCall.res = Candidates(ViewCommand)
       ELSE IF node.use_peers_list
       THEN LET std == Clear("peers-tls-std", "peers-clear-std")
            IN /\ lastCall.cmds = <<std, ViewCommand>>
               /\ lastCall.res =
                     IF replies[std].exc \/ replies[ViewCommand].exc THEN ExcValue
                     ELSE Value(replies[std].val \o replies[ViewCommand].val)
       ELSE IF Candidates("services-alumni").val # <<>>
       THEN /\ lastCall.cmds = <<"services-alumni">>
            /\ lastCall.res = replies["services-alumni"]
       ELSE /\ lastCall.cmds = <<"services-alumni", "services">>
            /\ lastCall.res = Candidates("services")

\* alumni discovery with the peers feature and TLS returned both lists
C13_Witness ==
    /\ Found
    /\ node.consider_alumni
    /\ node.use_peers_list
    /\ node.enable_tls
    /\ Len(lastCall.res.val) = 2

\* C15: without the peers feature and with alumni discovery, when
\* services-alumni fails the result of discovery is the result of the
\* services command, never the failure.
C15_AlumniFallback ==
    (Found /\ node.consider_alumni /\ ~node.use_peers_list
       /\ replies["services-alumni"].exc) =>
       /\ lastCall.res = Candidates("services")
       /\ ~lastCall.res.exc

C15_Witness ==
    /\ Found
    /\ node.consider_alumni
    /\ ~node.use_peers_list
    /\ replies["services-alumni"].exc
    /\ lastCall.res = Value(ViewList("services"))


(***************************************************************************)
(* The socket pool of a node and the threads that use it.  A thread runs   *)
(* _info_cinfo (past its cache) or close, one step at a time; the steps of *)
(* the loop of _get_connection are taken under Node.pool_lock, those of    *)
(* close are not.                                                          *)
(***************************************************************************)
SockIds == {"s1", "s2"}
Threads == {"t1", "t2"}
\* self.port and self.xdr_port, the keys of socket_pool
PoolPorts == {"port", "xdr_port"}
NoSock == "none"

\* a socket object: st is free (no such object), open, closed, or orphan
\* (open, in a pool that is gone); err says that an I/O error happened on it
NoSocket == [st |-> "free", err |-> FALSE, port |-> "port"]

\* a thread outside any call
IdleThread ==
    [pc |-> "idle", op |-> "none", port |-> "port", sock |-> NoSock,
     pooled |-> FALSE, probed |-> FALSE, created |-> FALSE,
     released |-> 0, drained |-> 0, result |-> "none", quiet |-> FALSE]
\* released counts the calls of sock.close() of an info call, drained the
\* sockets a close() has popped while no info call was running

\* ASSocket.close(force=True): the socket is closed
close_force(p, s) == [p EXCEPT !.socks[s].st = "closed"]

\* ASSocket.close(): the release of the pool; the socket goes back to the
\* set of its port, or is closed after an I/O error on it or when there is
\* no pool any more
release(p, s) ==
    IF p.socks[s].err \/ ~p.open \/ p.socks[s].st # "open"
    THEN close_force(p, s)
    ELSE [p EXCEPT !.sets[p.socks[s].port] = @ \cup {s}]

\* sock.is_connected(): the peer may have dropped an open socket
is_connected(p, s) ==
    IF p.socks[s].st = "open" THEN BOOLEAN ELSE {FALSE}

\* sock.execute(command): the reply, an invalid result (-1 or None) with
\* or without an I/O error on the socket, or an exception
execute(p, s) ==
    IF p.socks[s].st = "open" THEN {"data", "invalid", "invalid_err", "raises"}
    ELSE {"invalid_err", "raises"}

\* a thread inside a call refers to the socket
Referred(cs, s) == \E t \in Threads : cs[t].pc # "idle" /\ cs[t].sock = s

\* the identifiers no object has: of sockets that are not open and that
\* neither a thread nor the pool refers to
Unused(p, cs) ==
    {s \in SockIds :
        /\ ~Referred(cs, s)
        /\ p.socks[s].st # "open"
        /\ \A q \in PoolPorts : s \notin p.sets[q]}

\* self.socket_pool = None: the sets are gone, with the sockets in them
socket_pool_None(p, cs) ==
    [p EXCEPT !.open = FALSE,
              !.sets = [q \in PoolPorts |-> {}],
              !.socks = [s \in SockIds |->
                           IF /\ \E q \in PoolPorts : s \in p.sets[q]
                              /\ p.socks[s].st = "open"
                              /\ ~Referred(cs, s)
                           THEN [p.socks[s] EXCEPT !.st = "orphan"]
                           ELSE p.socks[s]]]

\* a step of another thread's info call ends the quiet of a close
Touch(cs) == [t \in Threads |-> [cs[t] EXCEPT !.quiet = FALSE, !.drained = 0]]

InitPool ==
    /\ phase = "pool"
    /\ pmap_info = [n \in Nodes |-> [err |-> FALSE, items |-> <<>>]]
    /\ namespace_stats = EmptyMap
    /\ versions = [n \in Nodes |-> <<3, 9, 0>>]
    /\ ns_info = EmptyMap
    /\ pmap_data = NoReport
    /\ node = NodeIdle
    /\ seed = <<>>
    /\ lastCall = NoCall
    /\ trace = Untraced
    /\ replies = EmptyMap
    /\ latency = NoLatency
    /\ socket_pool = [open |-> TRUE, sets |-> [q \in PoolPorts |-> {}],
                      socks |-> [s \in SockIds |-> NoSocket],
                      pool_lock |-> "free", repooled |-> FALSE]
    /\ callers = [t \in Threads |-> IdleThread]
    /\ snapshot = NoSnapshot
    /\ credentials = NoCredentials
    /\ health = NoHealth

PoolStep == UNCHANGED <<phase, pmapVars, nodeVars, trace, replies, latency, ctlVars>>

\* _info_cinfo(command, ip, port) up to `with Node.pool_lock`
info_cinfo_start(t, port) ==
    /\ phase = "pool"
    /\ callers[t].pc = "idle"
    /\ socket_pool.pool_lock = "free"
    /\ socket_pool' = [socket_pool EXCEPT !.pool_lock = t]
    /\ callers' = [Touch(callers) EXCEPT
                      ![t] = [IdleThread EXCEPT !.pc = "pop", !.op = "info",
                                                !.port = port]]
    /\ PoolStep

\* the end of _get_connection once the loop is left by an exception:
\* `if sock: return sock`, else a new socket and its connect
get_connection_return(t, connects) ==
    LET c == callers[t]
        p == [socket_pool EXCEPT !.pool_lock = "free"]
    IN IF c.sock # NoSock
       THEN /\ socket_pool' = p
            /\ callers' = [Touch(callers) EXCEPT ![t].pc = "execute", ![t].pooled = TRUE]
       ELSE IF connects
       THEN \E s \in Unused(socket_pool, callers) :
               /\ socket_pool' =
                     [p EXCEPT !.socks[s] = [st |-> "open", err |-> FALSE,
                                             port |-> c.port]]
               /\ callers' = [Touch(callers) EXCEPT ![t].pc = "execute",
                                                   ![t].sock = s,
                                                   ![t].created = TRUE]
       ELSE /\ socket_pool' = p
            /\ callers' = [Touch(callers) EXCEPT ![t].pc = "execute"]

\* sock = self.socket_pool[port].pop(), which raises on an empty set and
\* when socket_pool is None
get_connection_pop(t, connects) ==
    /\ callers[t].pc = "pop"
    /\ LET q == callers[t].port
       IN IF socket_pool.open /\ socket_pool.sets[q] # {}
          THEN /\ connects
               /\ \E s \in socket_pool.sets[q] :
                     /\ socket_pool' = [socket_pool EXCEPT !.sets[q] = @ \ {s}]
                     /\ callers' = [Touch(callers) EXCEPT ![t].pc = "probe",
                                                         ![t].sock = s]
          ELSE get_connection_return(t, connects)
    /\ PoolStep

\* if sock.is_connected(): break; sock.close(force=True)
get_connection_probe(t, alive) ==
    /\ callers[t].pc = "probe"
    /\ alive \in is_connected(socket_pool, callers[t].sock)
    /\ IF alive
       THEN /\ socket_pool' = [socket_pool EXCEPT !.pool_lock = "free"]
            /\ callers' = [Touch(callers) EXCEPT ![t].pc = "execute",
                                                ![t].pooled = TRUE,
                                                ![t].probed = TRUE]
       ELSE /\ socket_pool' = close_force(socket_pool, callers[t].sock)
            /\ callers' = [Touch(callers) EXCEPT ![t].pc = "pop"]
    /\ PoolStep

\* the try block of _info_cinfo: execute, close and the test of the result
info_cinfo_execute(t, out) ==
    /\ callers[t].pc = "execute"
    /\ LET c == callers[t]
           s == c.sock
           failed == [socket_pool EXCEPT !.socks[s].err = TRUE]
       IN IF s = NoSock
          THEN /\ out = "invalid"
               /\ socket_pool' = socket_pool
               /\ callers' = [Touch(callers) EXCEPT ![t].pc = "idle",
                                                   ![t].result = "IOError"]
          ELSE /\ out \in execute(socket_pool, s)
               /\ CASE out = "data" ->
                         /\ socket_pool' = release(socket_pool, s)
                         /\ callers' = [Touch(callers) EXCEPT
                                           ![t].pc = "idle", ![t].result = "data",
                                           ![t].released = @ + 1]
                    [] out = "invalid" ->
                         /\ socket_pool' = release(socket_pool, s)
                         /\ callers' = [Touch(callers) EXCEPT
                                           ![t].pc = "except", ![t].released = @ + 1]
                    [] out = "invalid_err" ->
                         /\ socket_pool' = release(failed, s)
                         /\ callers' = [Touch(callers) EXCEPT
                                           ![t].pc = "except", ![t].released = @ + 1]
                    [] out = "raises" ->
                         /\ socket_pool' = failed
                         /\ callers' = [Touch(callers) EXCEPT ![t].pc = "except"]
    /\ PoolStep

\* the except block of _info_cinfo: `if sock: sock.close()` and the raise
info_cinfo_except(t) ==
    /\ callers[t].pc = "except"
    /\ LET c == callers[t]
           p == release(socket_pool, c.sock)
       IN /\ socket_pool' =
                [p EXCEPT !.repooled =
                     @ \/ (c.released > 0 /\ c.sock \in p.sets[p.socks[c.sock].port])]
          /\ callers' = [Touch(callers) EXCEPT ![t].pc = "idle",
                                              ![t].result = "IOError",
                                              ![t].released = @ + 1]
    /\ PoolStep

\* Node.close() is called
close_start(t) ==
    /\ phase = "pool"
    /\ callers[t].pc = "idle"
    /\ callers' = [callers EXCEPT
                      ![t] = [IdleThread EXCEPT
                                 !.pc = "close_port", !.op = "close",
                                 !.quiet = \A u \in Threads \ {t} :
                                               callers[u].pc = "idle"]]
    /\ UNCHANGED socket_pool
    /\ PoolStep

\* a close() that ends with its first loop: the pool of xdr_port is left
\* as it is
close_pop_port_only(t) ==
    /\ callers[t].pc = "close_port"
    /\ IF socket_pool.open /\ socket_pool.sets["port"] # {}
       THEN /\ \E s \in socket_pool.sets["port"] :
                  socket_pool' =
                     close_force([socket_pool EXCEPT !.sets["port"] = @ \ {s}], s)
            /\ callers' = [callers EXCEPT
                                 ![t].drained = IF callers[t].quiet THEN @ + 1 ELSE @]
       ELSE /\ socket_pool' = socket_pool_None(socket_pool, callers)
            /\ callers' = [callers EXCEPT ![t].pc = "idle", ![t].result = "closed"]
    /\ PoolStep

\* one turn of a loop of close(): pop and close(force=True), or the
\* exception that ends the loop; after the second loop socket_pool = None
close_pop(t) ==
    /\ callers[t].pc \in {"close_port", "close_xdr_port"}
    /\ LET q == IF callers[t].pc = "close_port" THEN "port" ELSE "xdr_port"
       IN IF socket_pool.open /\ socket_pool.sets[q] # {}
          THEN /\ \E s \in socket_pool.sets[q] :
                     socket_pool' =
                        close_force([socket_pool EXCEPT !.sets[q] = @ \ {s}], s)
               /\ callers' = [callers EXCEPT
                                 ![t].drained = IF callers[t].quiet THEN @ + 1 ELSE @]
          ELSE IF q = "port"
          THEN /\ callers' = [callers EXCEPT ![t].pc = "close_xdr_port"]
               /\ UNCHANGED socket_pool
          ELSE /\ socket_pool' = socket_pool_None(socket_pool, callers)
               /\ callers' = [callers EXCEPT ![t].pc = "idle",
                                             ![t].result = "closed"]
    /\ PoolStep

NextPool ==
    \/ \E t \in Threads, port \in PoolPorts : info_cinfo_start(t, port)
    \/ \E t \in Threads, connects \in BOOLEAN : get_connection_pop(t, connects)
    \/ \E t \in Threads, alive \in BOOLEAN : get_connection_probe(t, alive)
    \/ \E t \in Threads, out \in {"data", "invalid", "invalid_err", "raises"} :
          info_cinfo_execute(t, out)
    \/ \E t \in Threads : info_cinfo_except(t)
    \/ \E t \in Threads : close_start(t)
    \/ \E t \in Threads : close_pop(t)

SpecPool == InitPool /\ [][NextPool]_vars

\* the thread has left _get_connection and not yet called sock.close()
Holds(t) == callers[t].pc = "execute" /\ callers[t].sock # NoSock
\* the thread has returned from _info_cinfo
Returned_cinfo(t) == callers[t].pc = "idle" /\ callers[t].op = "info"

\* C16: _get_connection hands out from the pool only a socket whose
\* is_connected() probe succeeded at that acquire, a socket that failed
\* the probe is force-closed and never handed out, and a socket that is
\* not from the pool is a new one whose connect succeeded.
C16_AcquireProbed ==
    \A t \in Threads :
       Holds(t) =>
          /\ callers[t].pooled => callers[t].probed
          /\ ~callers[t].pooled => callers[t].created

\* C17: a socket that _info_cinfo acquired is released or closed exactly
\* once by the time the call returns, on every exit path.
C17_ReleasedOnce ==
    \A t \in Threads :
       (Returned_cinfo(t) /\ callers[t].sock # NoSock) => callers[t].released = 1

\* on every exit path the socket is released or closed, once or (after an
\* invalid result) twice
C17_ReleasedOnceOrTwice ==
    \A t \in Threads :
       (Returned_cinfo(t) /\ callers[t].sock # NoSock) =>
          /\ callers[t].released \in {1, 2}
          /\ callers[t].released = 2 => callers[t].result = "IOError"

\* the sockets that are open and in a set of the pool
OpenPooled ==
    {s \in SockIds : /\ socket_pool.socks[s].st = "open"
                     /\ \E q \in PoolPorts : s \in socket_pool.sets[q]}
\* C18: when close() returns, with no info call running meanwhile, both
\* pools are drained: no socket is open, and none was left open in a set
\* when the pool went; a close() on a closed pool changes neither the
\* pool nor a socket, and never raises.
C18_CloseDrains ==
    [][\A t \in Threads :
          close_pop(t) =>
             /\ (callers'[t].pc = "idle" /\ callers'[t].quiet) =>
                   /\ ~socket_pool'.open
                   /\ OpenPooled' = {}
                   /\ \A s \in SockIds :
                         /\ socket_pool'.socks[s].st # "open"
                         /\ socket_pool'.socks[s].st = "orphan" =>
                               socket_pool.socks[s].st = "orphan"
                   /\ callers'[t].result = "closed"
             /\ ~socket_pool.open => socket_pool' = socket_pool]_vars

\* a close() returned after it drained a socket of each port, with no
\* info call running meanwhile
C18_Witness ==
    \E t \in Threads :
       /\ callers[t].pc = "idle"
       /\ callers[t].op = "close"
       /\ callers[t].quiet
       /\ callers[t].drained = 2
       /\ \E s, r \in SockIds :
             /\ socket_pool.socks[s].port # socket_pool.socks[r].port
             /\ socket_pool.socks[s].st = "closed"
             /\ socket_pool.socks[r].st = "closed"

\* C19: no socket is held by two callers at the same time.
C19_ExclusiveSocket ==
    \A t, u \in Threads :
       (t # u /\ Holds(t) /\ Holds(u)) => callers[t].sock # callers[u].sock

\* no socket is held by two callers as long as no call has put a socket
\* back into the pool with its second close
C19_ExclusiveUnlessRepooled ==
    socket_pool.repooled \/ C19_ExclusiveSocket


(***************************************************************************)
(* The total rows of a latency histogram.  A row is <<time span, ops/sec,  *)
(* p1, p2>>; a percentage is a number of hundredths of a percent, so that  *)
(* round(v, 2) is the rounding to an integer.  The arithmetic is exact:    *)
(* the rows are such that no quotient is half way between two hundredths,  *)
(* where the binary floats of the program and decimals part.               *)
(***************************************************************************)
LatencyNamespaces == {"test", "bar"}
TimeSpans == {"10:00:00->10:00:10", "10:00:10->10:00:20"}
OpsOf(ns) == IF ns = "test" THEN {0, 100} ELSE {0, 300}
Percents1 == {1000, 2000, 3333}
Percents2 == {0, 500}

\* round(n / d): to the nearest integer, a half away from zero (n, d >= 0)
round2(n, d) == (2 * n + d) \div (2 * d)

\* update_row that adds the ops of the row to the sum before it weighs the
\* percentages
update_row_sum_first(t_row, row) ==
    IF row[2] > 0
    THEN LET sum == t_row[2] + row[2]
         IN [i \in 1..Len(t_row) |->
               IF i = 1 THEN t_row[1]
               ELSE IF i = 2 THEN sum
               ELSE round2(sum * t_row[i] + row[2] * row[i], sum + row[2])]
    ELSE t_row

\* the body of the loop of _update_total_latency for the matching t_row
update_row(t_row, row) ==
    IF row[2] > 0
    THEN LET n_sum == row[2]
             o_sum == t_row[2]
         IN [i \in 1..Len(t_row) |->
               IF i = 1 THEN t_row[1]
               ELSE IF i = 2 THEN o_sum + n_sum
               ELSE round2(o_sum * t_row[i] + n_sum * row[i], o_sum + n_sum)]
    ELSE t_row

\* Node._update_total_latency
_update_total_latency(t_rows, row) ==
    IF row = <<>> THEN t_rows
    ELSE IF t_rows = <<>> THEN <<row>>
    ELSE LET same == {k \in 1..Len(t_rows) : t_rows[k][1] = row[1]}
         IN IF same # {}
            THEN LET k == CHOOSE j \in same : \A l \in same : j <= l
                 IN [t_rows EXCEPT ![k] = update_row(@, row)]
            ELSE Append(t_rows, row)

InitLatency ==
    /\ phase = "latency"
    /\ pmap_info = [n \in Nodes |-> [err |-> FALSE, items |-> <<>>]]
    /\ namespace_stats = EmptyMap
    /\ versions = [n \in Nodes |-> <<3, 9, 0>>]
    /\ ns_info = EmptyMap
    /\ pmap_data = NoReport
    /\ node = NodeIdle
    /\ seed = <<>>
    /\ lastCall = NoCall
    /\ trace = Untraced
    /\ replies = EmptyMap
    /\ socket_pool = NoPool
    /\ callers = NoCallers
    /\ snapshot = NoSnapshot
    /\ credentials = NoCredentials
    /\ health = NoHealth
    /\ latency = [values |-> [ns \in LatencyNamespaces |->
                                 [span \in TimeSpans |-> <<>>]],
                  total |-> <<>>]

\* info_latency reads one row of the histogram of the namespace ns
info_latency_row(ns, row) ==
    /\ phase = "latency"
    /\ latency.values[ns][row[1]] = <<>>
    /\ latency' = [values |-> [latency.values EXCEPT ![ns][row[1]] = row],
                   total |-> _update_total_latency(latency.total, row)]
    /\ UNCHANGED <<phase, pmapVars, nodeVars, trace, replies, poolVars, ctlVars>>

NextLatency ==
    \E ns \in LatencyNamespaces, span \in TimeSpans :
       \E ops \in OpsOf(ns), p1 \in Percents1, p2 \in Percents2 :
          info_latency_row(ns, <<span, ops, p1, p2>>)

SpecLatency == InitLatency /\ [][NextLatency]_vars

\* the total row of a time span
TotalOf(span) ==
    {latency.total[k] : k \in {j \in 1..Len(latency.total) :
                                  latency.total[j][1] = span}}
\* r is n / d rounded to the nearest integer
IsRounded(r, n, d) == -d < 2 * r * d - 2 * n /\ 2 * r * d - 2 * n <= d
\* both namespaces gave a row with ops > 0 for the time span
BothRows(span) ==
    \A ns \in LatencyNamespaces :
       latency.values[ns][span] # <<>> /\ latency.values[ns][span][2] > 0

\* C20: the total row of a time span with two namespace rows (a, x) and
\* (b, y), a, b > 0, has ops = a + b and each pi = (a*x + b*y) / (a + b)
\* rounded to two decimals.
C20_WeightedTotal ==
    phase = "latency" =>
       \A span \in TimeSpans :
          BothRows(span) =>
             LET r == latency.values["test"][span]
                 q == latency.values["bar"][span]
             IN /\ Cardinality(TotalOf(span)) = 1
                /\ \A t \in TotalOf(span) :
                      /\ t[2] = r[2] + q[2]
                      /\ \A i \in 3..4 :
                            IsRounded(t[i], r[2] * r[i] + q[2] * q[i], r[2] + q[2])

\* (100, 10.00%) and (300, 20.00%) gave the total (400, 17.50%)
C20_Witness ==
    /\ phase = "latency"
    /\ \E span \in TimeSpans :
          /\ BothRows(span)
          /\ latency.values["test"][span][3] = 1000
          /\ latency.values["bar"][span][3] = 2000
          /\ \E t \in TotalOf(span) : t[2] = 400 /\ t[3] = 1750


(***************************************************************************)
(* The rows of one histogram folded one at a time into its total rows, in  *)
(* the order in which the reply of the server lists them.  A row is        *)
(* <<time span, ops/sec, p1>>.                                             *)
(***************************************************************************)
MaxFold == 3
FoldOps == {0, 100, 300}
FoldRowsIn == {<<span, ops, p1>> : span \in TimeSpans, ops \in FoldOps, p1 \in Percents1}

InitFold ==
    /\ phase = "fold"
    /\ pmap_info = [n \in Nodes |-> [err |-> FALSE, items |-> <<>>]]
    /\ namespace_stats = EmptyMap
    /\ versions = [n \in Nodes |-> <<3, 9, 0>>]
    /\ ns_info = EmptyMap
    /\ pmap_data = NoReport
    /\ node = NodeIdle
    /\ seed = <<>>
    /\ lastCall = NoCall
    /\ trace = Untraced
    /\ replies = EmptyMap
    /\ socket_pool = NoPool
    /\ callers = NoCallers
    /\ snapshot = NoSnapshot
    /\ credentials = NoCredentials
    /\ health = NoHealth
    /\ latency = [rows |-> <<>>, total |-> <<>>]

\* data[hist_name][total_key]["values"] = self._update_total_latency(..., row)
fold_row(row) ==
    /\ phase = "fold"
    /\ Len(latency.rows) < MaxFold
    /\ latency' = [rows |-> Append(latency.rows, row),
                   total |-> _update_total_latency(latency.total, row)]
    /\ UNCHANGED <<phase, pmapVars, nodeVars, trace, replies, poolVars, ctlVars>>

NextFold == \E row \in FoldRowsIn : fold_row(row)

SpecFold == InitFold /\ [][NextFold]_vars

\* the total rows after the rows of q were folded in their order
RECURSIVE FoldRows(_)
FoldRows(q) ==
    IF q = <<>> THEN <<>>
    ELSE _update_total_latency(FoldRows(SubSeq(q, 1, Len(q) - 1)), q[Len(q)])
\* the total rows of a time span among the total rows t
SpanTotal(t, span) == {t[k] : k \in {j \in 1..Len(t) : t[j][1] = span}}
\* q without its k-th row
Without(q, k) == SubSeq(q, 1, k - 1) \o SubSeq(q, k + 1, Len(q))
\* the orders of the rows of q
Orders(q) ==
    {[i \in 1..Len(q) |-> q[f[i]]] :
        f \in {g \in [1..Len(q) -> 1..Len(q)] :
                 \A i, j \in 1..Len(q) : g[i] = g[j] => i = j}}

\* C21: a row with ops/sec = 0 does not contribute: wherever it stands, the
\* total of its time span is the one that the other rows give without it
\* (when the time span has another row).
C21_ZeroOpsRowIgnored ==
    phase = "fold" =>
       \A k \in 1..Len(latency.rows) :
          LET row == latency.rows[k]
              rest == Without(latency.rows, k)
          IN (row[2] = 0 /\ \E j \in 1..Len(rest) : rest[j][1] = row[1]) =>
                SpanTotal(latency.total, row[1]) = SpanTotal(FoldRows(rest), row[1])

\* a row with ops/sec = 0 does not contribute to a total that has ops
C21_ZeroOpsRowIgnoredWithOps ==
    phase = "fold" =>
       \A k \in 1..Len(latency.rows) :
          LET row == latency.rows[k]
              rest == Without(latency.rows, k)
          IN (row[2] = 0 /\ \E t \in SpanTotal(latency.total, row[1]) : t[2] > 0) =>
                SpanTotal(latency.total, row[1]) = SpanTotal(FoldRows(rest), row[1])

\* C22: the total row of a time span is the same for every order in which
\* the rows are folded, and rows of another time span do not affect it.
C22_OrderIndependent ==
    phase = "fold" =>
       /\ \A q \in Orders(latency.rows), span \in TimeSpans :
             SpanTotal(FoldRows(q), span) = SpanTotal(latency.total, span)
       /\ \A span \in TimeSpans :
             SpanTotal(latency.total, span) =
                SpanTotal(FoldRows(SelectSeq(latency.rows, LAMBDA r : r[1] = span)),
                          span)

\* the same for rows that all have ops
C22_OrderIndependentWithOps ==
    (phase = "fold" /\ \A k \in 1..Len(latency.rows) : latency.rows[k][2] > 0) =>
       \A q \in Orders(latency.rows), span \in TimeSpans :
          SpanTotal(FoldRows(q), span) = SpanTotal(latency.total, span)

\* rows of another time span do not affect the total of a time span, and
\* two rows with ops give the same total in both orders
C22_SpansIndependent ==
    phase = "fold" =>
       /\ \A span \in TimeSpans :
             SpanTotal(latency.total, span) =
                SpanTotal(FoldRows(SelectSeq(latency.rows, LAMBDA r : r[1] = span)),
                          span)
       /\ (Len(latency.rows) = 2 /\ \A k \in 1..2 : latency.rows[k][2] > 0) =>
             \A q \in Orders(latency.rows), span \in TimeSpans :
                SpanTotal(FoldRows(q), span) = SpanTotal(latency.total, span)


(***************************************************************************)
(* The field indices of a partition-info reply.                            *)
(***************************************************************************)
\* f_indices of node n when the loop over its records ends
f_indices_of(n) ==
    process_items([raised |-> FALSE, index_set |-> FALSE,
                   f_indices |-> default_indices,
                   node_pmap |-> EmptyMap, missing |-> EmptyMap],
                  split_items(pmap_info[n].items), 1, versions[n],
                  _get_namespace_data(namespace_stats, <<"A", "B">>)).f_indices

PositionsIn(fields) ==
    [ns_index      |-> IndexOf(fields, "namespace"),
     pid_index     |-> IndexOf(fields, "partition"),
     state_index   |-> IndexOf(fields, "state"),
     pindex_index  |-> IndexOf(fields, "replica"),
     objects_index |-> IndexOf(fields, "records")]
Positional(k) ==
    [ns_index |-> 0, pid_index |-> 1, state_index |-> 2, pindex_index |-> 3,
     objects_index |-> k]
AllNamesIn(fields) ==
    \A name \in {"namespace", "partition", "state", "replica", "records"} :
        \E i \in 1..Len(fields) : fields[i] = name

\* C27: the field indices of a node are fixed by its first record only: a
\* first record with all of namespace, partition, state, replica, records
\* is a header, it gives the indices by the positions of the names and is
\* not counted as data; otherwise the indices are 0, 1, 2, 3 and 8 for the
\* records when the version is 3.6.1 or later, else 9, and the first
\* record is processed as data.
C27_IndicesFromFirstRecord ==
    \A n \in Answered :
       /\ f_indices_of(n) =
             IF AllNamesIn(FirstItem(n)) THEN PositionsIn(FirstItem(n))
             ELSE IF VersionGE(versions[n], <<3, 6, 1>>) THEN Positional(8)
             ELSE Positional(9)
       /\ PmapDone =>
             /\ n \in DOMAIN Report
             /\ DOMAIN Report[n] =
                   {parse_fields(pmap_info[n].items[i], f_indices_of(n)).ns :
                       i \in (IF AllNamesIn(FirstItem(n)) THEN 2 ELSE 1)
                               ..Len(pmap_info[n].items)}
C27_Witness ==
    /\ PmapDone
    /\ \E n \in Answered :
          /\ AllNamesIn(FirstItem(n)) /\ Len(pmap_info[n].items) >= 2
          /\ VersionGE(versions[n], <<3, 6, 1>>)
    /\ \E n \in Answered :
          /\ ~AllNamesIn(FirstItem(n)) /\ Len(pmap_info[n].items) >= 1

(***************************************************************************)
(* The peers list and the liveness flag of a node.                         *)
(***************************************************************************)
ConnectStep ==
    /\ phase' = "node" /\ replies' = replies
    /\ trace'.on /\ trace'.connected /\ node'.alive
\* C28: whenever a node is alive after connect() or refresh_connection(),
\* its peers list is the list fetched for the generation stored in
\* peers_generation; the empty list of a failed connect does not survive a
\* later successful connect against an unchanged generation.
C28_PeersOfStoredGeneration ==
    [][ConnectStep =>
          /\ node'.peers = _find_friend_nodes(node', replies).res
          /\ (phase = "node" /\ node.node_id = FakeId)
                => node'.peers # Value(<<>>)]_vars

InfoStep == phase = "node" /\ phase' = "node" /\ lastCall'.op # "none"
\* C29: once an info operation has failed with an exception alive is false
\* and stays false through later info operations, successful ones
\* included; alive becomes true again only through a connect() or
\* refresh_connection() that completes successfully.
C29_AliveOnlyByConnect ==
    [][/\ (InfoStep /\ (lastCall'.kind = "exception" \/ lastCall'.sockfail))
            => ~node'.alive
       /\ (InfoStep /\ ~node.alive) => ~node'.alive
       /\ (phase = "node" /\ phase' = "node" /\ ~node.alive /\ node'.alive)
            => (lastCall'.op = "none" /\ node'.node_id = RealId)]_vars
\* a successful info operation has left a node not alive
C29_Witness ==
    /\ phase = "node" /\ lastCall.op \notin {"none"}
    /\ lastCall.kind \in {"data", "parsed", "list"} /\ ~lastCall.sockfail
    /\ node.node_id = RealId /\ ~node.alive


(***************************************************************************)
(* CollectinfoController: the snapshot of the statistics and the           *)
(* configuration of the cluster.  A dictionary is a function on its keys,  *)
(* the statistics of one entity on one node a dictionary with the key      *)
(* "stat", an Exception the dictionary Error.                              *)
(***************************************************************************)
Error == [error |-> "Exception"]
\* isinstance(v, Exception)
IsError(v) == DOMAIN v = {"error"}
Leaf(kind, section, entity, n) == [stat |-> <<kind, section, entity, n>>]
IsLeaf(v) == DOMAIN v = {"stat"}

SnapNamespaces == {"test", "bar"}
\* the key of a set is the tuple (namespace, set): key[0] and key[1]
SetKeys == {"test/s1"}
set_key_0 == [k \in SetKeys |-> "test"]
set_key_1 == [k \in SetKeys |-> "s1"]
\* the key of a secondary index is "<ns> <set> <index>": key.split()[0], [2]
SindexKeys == {"test s1 ix"}
sindex_key_0 == [k \in SindexKeys |-> "test"]
sindex_key_2 == [k \in SindexKeys |-> "ix"]
BinKeys == {"test"}
DcKeys == {"dc1"}
ConfigNamespaces == {"test"}

\* GetStatisticsController.get_all on a cluster where every node answers
AllStats(S) ==
    [service   |-> [n \in S |-> Leaf("statistics", "service", "-", n)],
     namespace |-> [e \in SnapNamespaces |->
                      [n \in S |-> Leaf("statistics", "namespace", e, n)]],
     set       |-> [e \in SetKeys |->
                      [n \in S |-> Leaf("statistics", "set", e, n)]],
     bin       |-> [e \in BinKeys |->
                      [n \in S |-> Leaf("statistics", "bin", e, n)]],
     dc        |-> [e \in DcKeys |->
                      [n \in S |-> Leaf("statistics", "dc", e, n)]],
     sindex    |-> [e \in SindexKeys |->
                      [n \in S |-> Leaf("statistics", "sindex", e, n)]]]
\* GetConfigController.get_all on a cluster where every node answers
AllConfig(S) ==
    [service   |-> [n \in S |-> Leaf("config", "service", "-", n)],
     namespace |-> [e \in ConfigNamespaces |->
                      [n \in S |-> Leaf("config", "namespace", e, n)]],
     dc        |-> [e \in DcKeys |->
                      [n \in S |-> Leaf("config", "dc", e, n)]]]

\* util.flip_keys: {k1: {k2: v}} becomes {k2: {k1: v}}
flip_keys(m) ==
    [k2 \in UNION {DOMAIN m[k1] : k1 \in DOMAIN m} |->
        [k1 \in {k \in DOMAIN m : k2 \in DOMAIN m[k]} |-> m[k1][k2]]]

\* lines 1198-1202
_remove_exception_from_section_output(data) ==
    [section \in DOMAIN data |->
        [n \in DOMAIN data[section] |->
            IF IsError(data[section][n]) THEN EmptyMap
            ELSE data[section][n]]]

RaisedData == [raised |-> TRUE, d |-> EmptyMap]
Done(d) == [raised |-> FALSE, d |-> d]
Remove(f, k) == [x \in (DOMAIN f) \ {k} |-> f[x]]
\* ns[sub][name] = val, after ns[sub] = {} when ns has no key sub
nest(ns, sub, name, val) ==
    IF sub \in DOMAIN ns THEN [ns EXCEPT ![sub] = Extend(@, name, val)]
    ELSE Extend(ns, sub, Extend(EmptyMap, name, val))

\* lines 1187-1196, the loop over data.iteritems() in iteration order ord
RECURSIVE _restructure_ns_section(_, _, _)
_restructure_ns_section(data, ord, i) ==
    IF i > Len(ord) THEN data
    ELSE IF ord[i] \notin DOMAIN data
    THEN _restructure_ns_section(data, ord, i + 1)
    ELSE IF "namespace" \notin DOMAIN data[ord[i]] THEN data
    ELSE _restructure_ns_section(
             [data EXCEPT ![ord[i]].namespace =
                 [ns \in DOMAIN @ |-> [service |-> @[ns]]]],
             ord, i + 1)

\* lines 1177-1185
RECURSIVE _init_stat_ns_subsection(_, _, _)
_init_stat_ns_subsection(data, ord, i) ==
    IF i > Len(ord) THEN data
    ELSE IF ord[i] \notin DOMAIN data
    THEN _init_stat_ns_subsection(data, ord, i + 1)
    ELSE IF "namespace" \notin DOMAIN data[ord[i]] THEN data
    ELSE _init_stat_ns_subsection(
             [data EXCEPT ![ord[i]].namespace =
                 [ns \in DOMAIN @ |->
                     Extend(Extend(Extend(@[ns], "set", EmptyMap),
                                   "bin", EmptyMap), "sindex", EmptyMap)]],
             ord, i + 1)

\* lines 1140-1148, the loop over node_data['set']
RECURSIVE restructure_set_keys(_, _, _)
restructure_set_keys(ns_map, sets, keys) ==
    IF keys = {} THEN Done(ns_map)
    ELSE LET key == CHOOSE k \in keys : TRUE
             ns_name == set_key_0[key]
         IN IF ns_name \notin DOMAIN ns_map
            THEN restructure_set_keys(ns_map, sets, keys \ {key})
            ELSE IF IsError(ns_map[ns_name]) THEN RaisedData
            ELSE restructure_set_keys(
                     [ns_map EXCEPT
                        ![ns_name] = nest(@, "set", set_key_1[key], sets[key])],
                     sets, keys \ {key})

\* lines 1155-1164, the loop over node_data['sindex']
RECURSIVE restructure_sindex_keys(_, _, _)
restructure_sindex_keys(ns_map, sindexes, keys) ==
    IF keys = {} THEN Done(ns_map)
    ELSE LET key == CHOOSE k \in keys : TRUE
             ns_name == sindex_key_0[key]
         IN IF ns_name \notin DOMAIN ns_map THEN RaisedData
            ELSE IF ns_map[ns_name] = EmptyMap
            THEN restructure_sindex_keys(ns_map, sindexes, keys \ {key})
            ELSE IF IsError(ns_map[ns_name]) THEN RaisedData
            ELSE restructure_sindex_keys(
                     [ns_map EXCEPT
                        ![ns_name] = nest(@, "sindex", sindex_key_2[key],
                                          sindexes[key])],
                     sindexes, keys \ {key})

\* lines 1171-1174, the loop over node_data['bin']
RECURSIVE restructure_bin_keys(_, _, _)
restructure_bin_keys(ns_map, bins, keys) ==
    IF keys = {} THEN Done(ns_map)
    ELSE LET ns_name == CHOOSE k \in keys : TRUE
         IN IF ns_name \notin DOMAIN ns_map THEN RaisedData
            ELSE IF ns_map[ns_name] = EmptyMap
            THEN restructure_bin_keys(ns_map, bins, keys \ {ns_name})
            ELSE IF IsError(ns_map[ns_name]) THEN RaisedData
            ELSE restructure_bin_keys(
                     [ns_map EXCEPT
                        ![ns_name] = Extend(@, "bin", bins[ns_name])],
                     bins, keys \ {ns_name})

\* the loop over the keys of section sub of one node
restructure_keys(sub, ns_map, entries) ==
    CASE sub = "set" -> restructure_set_keys(ns_map, entries, DOMAIN entries)
      [] sub = "sindex" ->
             restructure_sindex_keys(ns_map, entries, DOMAIN entries)
      [] sub = "bin" -> restructure_bin_keys(ns_map, entries, DOMAIN entries)

\* _restructure_set_section, _restructure_sindex_section and
\* _restructure_bin_section (lines 1136-1175): the loop over
\* stats.iteritems() in iteration order ord; it returns at the first node
\* without the section, and an exception of the inner loop leaves it
RECURSIVE restructure_section(_, _, _, _)
restructure_section(sub, r, ord, i) ==
    IF r.raised \/ i > Len(ord) THEN r
    ELSE IF ord[i] \notin DOMAIN r.d
    THEN restructure_section(sub, r, ord, i + 1)
    ELSE IF sub \notin DOMAIN r.d[ord[i]] THEN r
    ELSE IF "namespace" \notin DOMAIN r.d[ord[i]] THEN RaisedData
    ELSE LET node_data == r.d[ord[i]]
             k == restructure_keys(sub, node_data.namespace, node_data[sub])
         IN IF k.raised THEN RaisedData
            ELSE restructure_section(sub,
                     Done([r.d EXCEPT
                             ![ord[i]] = Remove([node_data EXCEPT
                                                   !.namespace = k.d], sub)]),
                     ord, i + 1)

\* lines 1216-1222: the node id becomes the key above the entity
flip_entities(data, sections) ==
    [s \in DOMAIN data |->
        IF s \in sections THEN flip_keys(data[s]) ELSE data[s]]

\* _get_as_data_json (lines 1204-1254); ord and ordc are the iteration
\* orders of new_stats and new_config
_get_as_data_json(stats, config, ord, ordc) ==
    LET stats1 == _remove_exception_from_section_output(
                      flip_entities(stats,
                          {"namespace", "set", "bin", "dc", "sindex"}))
        config1 == _remove_exception_from_section_output(
                       flip_entities(config, {"namespace", "dc"}))
        new_stats == _init_stat_ns_subsection(
                         _restructure_ns_section(flip_keys(stats1), ord, 1),
                         ord, 1)
        r == restructure_section("bin",
                 restructure_section("sindex",
                     restructure_section("set", Done(new_stats), ord, 1),
                     ord, 1),
                 ord, 1)
        new_config == _restructure_ns_section(flip_keys(config1), ordc, 1)
    IN IF r.raised THEN RaisedData
       ELSE Done(flip_keys([statistics |-> r.d, config |-> new_config]))

(***************************************************************************)
(* The snapshot command: the statistics and the configuration the cluster  *)
(* returns, with up to MaxFaults nodes failing on, or missing from, the    *)
(* statistics of an entity, and the assembly.                              *)
(***************************************************************************)
MaxFaults == 2

StatSlots ==
    {<<"service", "-">>}
    \cup {<<"namespace", e>> : e \in SnapNamespaces}
    \cup {<<"set", e>> : e \in SetKeys}
    \cup {<<"bin", e>> : e \in BinKeys}
    \cup {<<"dc", e>> : e \in DcKeys}
    \cup {<<"sindex", e>> : e \in SindexKeys}
ConfigSlots ==
    {<<"service", "-">>}
    \cup {<<"namespace", e>> : e \in ConfigNamespaces}
    \cup {<<"dc", e>> : e \in DcKeys}

\* the per-node map of a section (service) or of an entity of a section
SlotMap(data, slot) ==
    IF slot[1] = "service" THEN data.service ELSE data[slot[1]][slot[2]]
WithSlotMap(data, slot, m) ==
    IF slot[1] = "service" THEN [data EXCEPT !.service = m]
    ELSE [data EXCEPT ![slot[1]][slot[2]] = m]
\* the call on node n returned an Exception, or returned nothing for n
Faulted(data, slot, n, how) ==
    WithSlotMap(data, slot,
        IF how = "error" THEN [SlotMap(data, slot) EXCEPT ![n] = Error]
        ELSE Remove(SlotMap(data, slot), n))

NoAsMap == [raised |-> FALSE, d |-> EmptyMap]

InitSnapshot ==
    /\ phase = "snapshot"
    /\ pmap_info = [n \in Nodes |-> [err |-> FALSE, items |-> <<>>]]
    /\ namespace_stats = EmptyMap
    /\ versions = [n \in Nodes |-> <<3, 9, 0>>]
    /\ ns_info = EmptyMap
    /\ pmap_data = NoReport
    /\ node = NodeIdle
    /\ seed = <<>>
    /\ lastCall = <<>>
    /\ trace = Untraced
    /\ socket_pool = NoPool
    /\ callers = NoCallers
    /\ latency = NoLatency
    /\ replies = EmptyMap
    /\ credentials = NoCredentials
    /\ health = NoHealth
    /\ snapshot = [pc |-> "input", stats |-> AllStats(Nodes),
                   config |-> AllConfig(Nodes), faults |-> 0,
                   as_map |-> NoAsMap]

\* the statistics call of one entity fails on, or leaves out, one node
StatsFault(slot, n, how) ==
    /\ phase = "snapshot" /\ snapshot.pc = "input"
    /\ snapshot.faults < MaxFaults
    /\ n \in DOMAIN SlotMap(snapshot.stats, slot)
    /\ IsLeaf(SlotMap(snapshot.stats, slot)[n])
    /\ snapshot' = [snapshot EXCEPT
                      !.stats = Faulted(@, slot, n, how),
                      !.faults = @ + 1]
    /\ UNCHANGED <<phase, pmapVars, nodeVars, trace, replies, poolVars,
                   latency, credentials, health>>

ConfigFault(slot, n, how) ==
    /\ phase = "snapshot" /\ snapshot.pc = "input"
    /\ snapshot.faults < MaxFaults
    /\ n \in DOMAIN SlotMap(snapshot.config, slot)
    /\ IsLeaf(SlotMap(snapshot.config, slot)[n])
    /\ snapshot' = [snapshot EXCEPT
                      !.config = Faulted(@, slot, n, how),
                      !.faults = @ + 1]
    /\ UNCHANGED <<phase, pmapVars, nodeVars, trace, replies, poolVars,
                   latency, credentials, health>>

\* CollectinfoController._get_as_data_json
Assemble(ord, ordc) ==
    /\ phase = "snapshot" /\ snapshot.pc = "input"
    /\ snapshot' = [snapshot EXCEPT
                      !.pc = "assembled",
                      !.as_map = _get_as_data_json(snapshot.stats,
                                     snapshot.config, ord, ordc)]
    /\ UNCHANGED <<phase, pmapVars, nodeVars, trace, replies, poolVars,
                   latency, credentials, health>>

NextSnapshot ==
    \/ \E slot \in StatSlots, n \in Nodes, how \in {"error", "absent"} :
          StatsFault(slot, n, how)
    \/ \E slot \in ConfigSlots, n \in Nodes, how \in {"error", "absent"} :
          ConfigFault(slot, n, how)
    \/ \E ord \in NodeOrders, ordc \in NodeOrders : Assemble(ord, ordc)

SpecSnapshot == InitSnapshot /\ [][NextSnapshot]_vars

Assembled == phase = "snapshot" /\ snapshot.pc = "assembled"
AsMap == snapshot.as_map.d
\* an Exception is somewhere in v
RECURSIVE HasError(_)
HasError(v) ==
    IF IsError(v) THEN TRUE
    ELSE IF IsLeaf(v) THEN FALSE
    ELSE \E k \in DOMAIN v : HasError(v[k])
\* a node failed on the statistics of an entity of a section
NestedErrorIn(data, slots) ==
    \E slot \in slots : slot[1] # "service" /\
        \E n \in DOMAIN SlotMap(data, slot) : IsError(SlotMap(data, slot)[n])

\* C23: in the snapshot assembled by _get_as_data_json no per-node entry of
\* a statistics or config section is an Exception: every per-node Exception,
\* one under a namespace, set, bin, dc or sindex entity included, is
\* replaced by an empty map, and the assembly continues.
C23_NoErrorWhenAssembled ==
    (Assembled /\ ~snapshot.as_map.raised) => ~HasError(AsMap)
\* an Exception a node returned for a whole section is replaced
C23_SectionErrorReplaced ==
    (Assembled /\ ~snapshot.as_map.raised) =>
       \A n \in DOMAIN AsMap :
          /\ "statistics" \in DOMAIN AsMap[n] =>
                ("service" \in DOMAIN AsMap[n].statistics =>
                    ~IsError(AsMap[n].statistics.service))
          /\ "config" \in DOMAIN AsMap[n] =>
                ("service" \in DOMAIN AsMap[n].config =>
                    ~IsError(AsMap[n].config.service))

\* C24: after the restructuring every node of the snapshot has, for each of
\* its namespaces, the namespace statistics under "service" and its set,
\* bin and sindex statistics under the namespace they belong to, and no
\* "set", "bin" or "sindex" section of its own, whatever the order of the
\* nodes and whichever sections other nodes lack.
C24_Restructured ==
    (Assembled /\ ~snapshot.as_map.raised) =>
       /\ TRUE
       /\ \A n \in DOMAIN AsMap :
             "statistics" \in DOMAIN AsMap[n] =>
                LET st == AsMap[n].statistics
                IN /\ DOMAIN st \cap {"set", "bin", "sindex"} = {}
                   /\ \A e \in SnapNamespaces :
                         n \in DOMAIN snapshot.stats.namespace[e] =>
                            /\ "namespace" \in DOMAIN st
                            /\ e \in DOMAIN st.namespace
                            /\ "service" \in DOMAIN st.namespace[e]
                   /\ \A k \in SetKeys :
                         (/\ n \in DOMAIN snapshot.stats.set[k]
                          /\ n \in DOMAIN snapshot.stats.namespace[set_key_0[k]])
                         => (/\ "set" \in DOMAIN st.namespace[set_key_0[k]]
                             /\ set_key_1[k] \in
                                  DOMAIN st.namespace[set_key_0[k]].set)
\* the same when every node holds every section
AllSectionsEverywhere ==
    /\ \A slot \in StatSlots : DOMAIN SlotMap(snapshot.stats, slot) = Nodes
    /\ \A slot \in ConfigSlots : DOMAIN SlotMap(snapshot.config, slot) = Nodes
C24_RestructuredAllSections ==
    (Assembled /\ AllSectionsEverywhere /\ ~NestedErrorIn(snapshot.stats, StatSlots))
       => C24_Restructured


(***************************************************************************)
(* CollectinfoController._get_collectinfo_data_json: the assembled data    *)
(* of the nodes with the system statistics and the metadata, under the     *)
(* name of the cluster.                                                    *)
(***************************************************************************)
ClusterNames == {ExcValue, Value("null"), Value("c1"), Value("c2")}
SysStats(n) == [sys |-> n]
MetaData(n) == [asd_build |-> n]

\* the first name that is no Exception, "null" taken for a name
RECURSIVE cluster_name_of_any(_, _, _)
cluster_name_of_any(cluster_names, ord, i) ==
    IF i > Len(ord) THEN "null"
    ELSE IF ord[i] \in DOMAIN cluster_names /\ ~cluster_names[ord[i]].exc
    THEN cluster_names[ord[i]].val
    ELSE cluster_name_of_any(cluster_names, ord, i + 1)

\* lines 1304-1312: the loop over cluster_names in iteration order ord
RECURSIVE cluster_name_of(_, _, _)
cluster_name_of(cluster_names, ord, i) ==
    IF i > Len(ord) THEN "null"
    ELSE IF /\ ord[i] \in DOMAIN cluster_names
            /\ ~cluster_names[ord[i]].exc
            /\ cluster_names[ord[i]].val \notin {"null"}
    THEN cluster_names[ord[i]].val
    ELSE cluster_name_of(cluster_names, ord, i + 1)

\* lines 1294-1300
dump_map_of(as_map, sys_map, meta_map) ==
    [n \in DOMAIN as_map |->
        LET as_stat == IF n \in DOMAIN meta_map
                       THEN Extend(as_map[n], "meta_data", meta_map[n])
                       ELSE as_map[n]
        IN IF n \in DOMAIN sys_map
           THEN [as_stat |-> as_stat, sys_stat |-> sys_map[n]]
           ELSE [as_stat |-> as_stat]]

\* lines 1283-1316
_get_collectinfo_data_json(as_map, sys_map, meta_map, cluster_names, ord) ==
    Extend(EmptyMap, cluster_name_of(cluster_names, ord, 1),
           dump_map_of(as_map, sys_map, meta_map))

InitCollect ==
    /\ phase = "collect"
    /\ pmap_info = [n \in Nodes |-> [err |-> FALSE, items |-> <<>>]]
    /\ namespace_stats = EmptyMap
    /\ versions = [n \in Nodes |-> <<3, 9, 0>>]
    /\ ns_info = EmptyMap
    /\ pmap_data = NoReport
    /\ node = NodeIdle
    /\ seed = <<>>
    /\ lastCall = <<>>
    /\ trace = Untraced
    /\ socket_pool = NoPool
    /\ callers = NoCallers
    /\ latency = NoLatency
    /\ replies = EmptyMap
    /\ credentials = NoCredentials
    /\ health = NoHealth
    /\ \E S \in SUBSET Nodes, ord \in NodeOrders :
          snapshot = [pc |-> "start",
                      as_map |-> _get_as_data_json(AllStats(S), AllConfig(S),
                                                   ord, ord).d,
                      sys_map |-> EmptyMap, meta_map |-> EmptyMap,
                      cluster_names |-> EmptyMap, snp_map |-> EmptyMap]

\* the command: the system statistics of the nodes of S1, the metadata of
\* the nodes of S2 and the replies to `cluster-name`
Collect(S1, sys, S2, cluster_names, ord) ==
    /\ phase = "collect" /\ snapshot.pc = "start"
    /\ LET sys_map == [n \in S1 |-> sys[n]]
           meta_map == [n \in S2 |-> MetaData(n)]
       IN snapshot' = [snapshot EXCEPT
                         !.pc = "done",
                         !.sys_map = sys_map,
                         !.meta_map = meta_map,
                         !.cluster_names = cluster_names,
                         !.snp_map = _get_collectinfo_data_json(
                                         snapshot.as_map, sys_map, meta_map,
                                         cluster_names, ord)]
    /\ UNCHANGED <<phase, pmapVars, nodeVars, trace, replies, poolVars,
                   latency, credentials, health>>

NextCollect ==
    \E S1 \in SUBSET Nodes, S2 \in {{}, Nodes}, ord \in NodeOrders,
       sys \in [Nodes -> {EmptyMap, Error, SysStats("x")}],
       cluster_names \in [Nodes -> ClusterNames] :
          Collect(S1, sys, S2, cluster_names, ord)

SpecCollect == InitCollect /\ [][NextCollect]_vars

Collected == phase = "collect" /\ snapshot.pc = "done"
\* the names the nodes reported without error, "null" left out
ReportedNames ==
    {snapshot.cluster_names[n].val :
        n \in {x \in Nodes : /\ ~snapshot.cluster_names[x].exc
                             /\ snapshot.cluster_names[x].val # "null"}}

MaxLines == 2

Digits == {"2", "3"}
DigitVal == [c \in Digits |-> IF c = "2" THEN 2 ELSE 3]
\* str.split(c)
RECURSIVE split(_, _)
split(s, c) ==
    IF \A i \in 1..Len(s) : s[i] # c THEN <<s>>
    ELSE LET i == CHOOSE k \in 1..Len(s) :
                      s[k] = c /\ \A j \in 1..(k - 1) : s[j] # c
         IN <<SubSeq(s, 1, i - 1)>> \o split(SubSeq(s, i + 1, Len(s)), c)
\* s[1:]
from_1(s) == IF s = <<>> THEN <<>> ELSE Tail(s)
\* int(s): None stands for ValueError
RECURSIVE digits_value(_, _)
digits_value(s, acc) ==
    IF s = <<>> THEN acc
    ELSE digits_value(Tail(s), 10 * acc + DigitVal[Head(s)])
int(s) ==
    IF s # <<>> /\ \A i \in 1..Len(s) : s[i] \in Digits
    THEN <<digits_value(s, 0)>> ELSE <<>>

\* lines 1069-1089: ip and port of the first field of a line; the fields of
\* split() hold no blanks, so that strip() leaves them as they are
parse_ip_port(ip_port) ==
    IF \E i \in 1..Len(ip_port) : ip_port[i] = "]"
    THEN LET parts == split(from_1(ip_port), "]")
         IN [ip |-> parts[1],
             port |-> IF Len(parts) > 1 THEN int(from_1(parts[2])) ELSE <<>>]
    ELSE LET parts == split(ip_port, ":")
         IN [ip |-> parts[1],
             port |-> IF Len(parts) > 1 THEN int(parts[2]) ELSE <<>>]

\* the host parts of Node.service_addresses
service_ips == {<<"a">>, <<"a", ":", "b">>}
\* Node._is_any_my_ip([ip])
_is_any_my_ip(ip) == ip \in service_ips

\* the loop without the break: a later matching line replaces an earlier
RECURSIVE read_lines_no_break(_, _, _)
read_lines_no_break(lines, i, cred) ==
    IF i > Len(lines) THEN cred
    ELSE IF Len(lines[i]) < 3 THEN read_lines_no_break(lines, i + 1, cred)
    ELSE LET p == parse_ip_port(lines[i][1])
         IN IF p.ip # <<>> /\ _is_any_my_ip(p.ip)
            THEN read_lines_no_break(lines, i + 1,
                     [sys_user_id |-> <<lines[i][2]>>,
                      sys_pwd |-> <<lines[i][3]>>,
                      sys_ssh_port |-> p.port, result |-> TRUE])
            ELSE read_lines_no_break(lines, i + 1, cred)

\* lines 1054-1099: the loop over f.readlines()
RECURSIVE read_lines(_, _, _)
read_lines(lines, i, cred) ==
    IF i > Len(lines) THEN cred
    ELSE IF Len(lines[i]) < 3 THEN read_lines(lines, i + 1, cred)
    ELSE LET p == parse_ip_port(lines[i][1])
         IN IF p.ip # <<>> /\ _is_any_my_ip(p.ip)
            THEN [sys_user_id |-> <<lines[i][2]>>,
                  sys_pwd |-> <<lines[i][3]>>,
                  sys_ssh_port |-> p.port, result |-> TRUE]
            ELSE read_lines(lines, i + 1, cred)

\* lines 1043-1106; file: "none" (no sys_credential_file), "missing" (open
\* raises IOError) or "ok"
_set_system_credentials_from_file(file, lines, cred) ==
    IF file = "none" THEN [cred EXCEPT !.result = FALSE]
    ELSE IF file = "missing" THEN [cred EXCEPT !.result = FALSE]
    ELSE read_lines(lines, 1, [cred EXCEPT !.result = FALSE])

default_credentials ==
    [sys_user_id |-> <<"root">>, sys_pwd |-> <<"dpwd">>, sys_ssh_port |-> <<>>]
\* lines 1108-1117
_set_system_credentials(file, lines, cred, use_cached_credentials) ==
    IF use_cached_credentials /\ cred.sys_user_id # <<>> /\ cred.sys_pwd # <<>>
    THEN cred
    ELSE LET c == _set_system_credentials_from_file(file, lines, cred)
         IN IF c.result THEN c
            ELSE [c EXCEPT !.sys_user_id = default_credentials.sys_user_id,
                           !.sys_pwd = default_credentials.sys_pwd,
                           !.sys_ssh_port = default_credentials.sys_ssh_port]

\* first fields of the lines of a credential file
IpPorts ==
    {<<"a">>, <<"b">>, <<"a", ":", "2">>, <<"a", ":", "2", "3">>,
     <<"a", ":", "x">>, <<"a", ":">>, <<"b", ":", "2">>,
     <<"a", ":", "b">>,
     <<"[", "a", "]", ":", "2">>, <<"[", "a", "]">>, <<"[", "a", "]", "2">>,
     <<"[", "a", "]", ":", "x">>, <<"[", "a", ":", "b", "]", ":", "3">>,
     <<"a", "]", ":", "2">>, <<"[", "b", "]", ":", "2">>, <<"[", "a">>}
Users == {"u1", "u2"}
PwdOf == [u \in Users |-> IF u = "u1" THEN "p1" ELSE "p2"]
FileLines ==
    {<<>>, << <<"a">>, "u1" >>}
    \cup {<<ipp, u, PwdOf[u]>> : ipp \in IpPorts, u \in Users}
\* the credentials of a new Node (lines 114-116), or those of an earlier call
InitialCredentials ==
    {[sys_user_id |-> <<>>, sys_pwd |-> <<>>, sys_ssh_port |-> <<>>,
      result |-> FALSE],
     [sys_user_id |-> <<"old">>, sys_pwd |-> <<"oldpwd">>,
      sys_ssh_port |-> <<22>>, result |-> FALSE]}

InitCredentials ==
    /\ phase = "credentials"
    /\ pmap_info = [n \in Nodes |-> [err |-> FALSE, items |-> <<>>]]
    /\ namespace_stats = EmptyMap
    /\ versions = [n \in Nodes |-> <<3, 9, 0>>]
    /\ ns_info = EmptyMap
    /\ pmap_data = NoReport
    /\ node = NodeIdle
    /\ seed = <<>>
    /\ lastCall = <<>>
    /\ trace = Untraced
    /\ socket_pool = NoPool
    /\ callers = NoCallers
    /\ latency = NoLatency
    /\ replies = EmptyMap
    /\ snapshot = NoSnapshot
    /\ health = NoHealth
    /\ \E file \in {"none", "missing", "ok"}, c \in InitialCredentials :
          credentials = [pc |-> "file", file |-> file, lines |-> <<>>,
                         before |-> c, cred |-> c]

\* the credential file holds one more line
WriteLine(line) ==
    /\ phase = "credentials" /\ credentials.pc = "file"
    /\ credentials.file = "ok"
    /\ Len(credentials.lines) < MaxLines
    /\ credentials' = [credentials EXCEPT !.lines = Append(@, line)]
    /\ UNCHANGED <<phase, pmapVars, nodeVars, trace, replies, poolVars,
                   latency, snapshot, health>>

SetFromFile ==
    /\ phase = "credentials" /\ credentials.pc = "file"
    /\ credentials' = [credentials EXCEPT
                         !.pc = "from_file",
                         !.cred = _set_system_credentials_from_file(
                                      credentials.file, credentials.lines, @)]
    /\ UNCHANGED <<phase, pmapVars, nodeVars, trace, replies, poolVars,
                   latency, snapshot, health>>

SetCredentials(use_cached_credentials) ==
    /\ phase = "credentials" /\ credentials.pc = "file"
    /\ credentials' = [credentials EXCEPT
                         !.pc = "set",
                         !.cred = _set_system_credentials(
                                      credentials.file, credentials.lines, @,
                                      use_cached_credentials)]
    /\ UNCHANGED <<phase, pmapVars, nodeVars, trace, replies, poolVars,
                   latency, snapshot, health>>

NextCredentials ==
    \/ \E line \in FileLines : WriteLine(line)
    \/ SetFromFile
    \/ \E use_cached_credentials \in BOOLEAN :
          SetCredentials(use_cached_credentials)

SpecCredentials == InitCredentials /\ [][NextCredentials]_vars

FromFileDone == phase = "credentials" /\ credentials.pc = "from_file"
CredLines == credentials.lines
SameCredentials(c, d) ==
    /\ c.sys_user_id = d.sys_user_id /\ c.sys_pwd = d.sys_pwd
    /\ c.sys_ssh_port = d.sys_ssh_port

\* the form <ip[:port]> of the first field, with the bracket form of IPv6
PortText(t) == t # <<>> /\ \A i \in 1..Len(t) : t[i] \in Digits
IpText(t) == t # <<>> /\ \A i \in 1..Len(t) : t[i] \notin {"[", "]"}
PlainForm(f) ==
    \E k \in 1..Len(f) :
        /\ \A i \in 1..k : f[i] \notin {"[", "]", ":"}
        /\ k = Len(f) \/ (f[k + 1] = ":" /\ PortText(SubSeq(f, k + 2, Len(f))))
BracketForm(f) ==
    /\ Len(f) >= 3 /\ f[1] = "["
    /\ \E k \in 3..Len(f) :
          /\ f[k] = "]" /\ IpText(SubSeq(f, 2, k - 1))
          /\ k = Len(f) \/ (f[k + 1] = ":" /\ PortText(SubSeq(f, k + 2, Len(f))))
WellFormed(line) == Len(line) >= 3 /\ (PlainForm(line[1]) \/ BracketForm(line[1]))
\* the ip of a first field: the text between the brackets, or before the
\* first colon
IpPart(f) ==
    IF \E i \in 1..Len(f) : f[i] = "]"
    THEN LET k == CHOOSE j \in 1..Len(f) :
                      f[j] = "]" /\ \A h \in 1..(j - 1) : f[h] # "]"
         IN SubSeq(f, 2, k - 1)
    ELSE IF \E i \in 1..Len(f) : f[i] = ":"
    THEN LET k == CHOOSE j \in 1..Len(f) :
                      f[j] = ":" /\ \A h \in 1..(j - 1) : f[h] # ":"
         IN SubSeq(f, 1, k - 1)
    ELSE f
\* the lines the program may take the credentials from
WellFormedMatches ==
    {i \in 1..Len(CredLines) :
        WellFormed(CredLines[i]) /\ IpPart(CredLines[i][1]) \in service_ips}
Matches ==
    {i \in 1..Len(CredLines) :
        Len(CredLines[i]) >= 3 /\ IpPart(CredLines[i][1]) \in service_ips}
First(S) == CHOOSE i \in S : \A j \in S : i <= j
FromLine(i) ==
    /\ credentials.cred.sys_user_id = <<CredLines[i][2]>>
    /\ credentials.cred.sys_pwd = <<CredLines[i][3]>>

\* C26: _set_system_credentials_from_file never raises; for a missing or
\* unreadable file it returns false, and a malformed line (too few fields,
\* bad port, bad IPv6 bracket form) is skipped; sys_user_id, sys_pwd and
\* sys_ssh_port are set only from the first line whose ip is one of the
\* node's service addresses, and are unchanged when no line matches.
C26_MalformedLinesSkipped ==
    FromFileDone =>
       IF credentials.file = "ok" /\ WellFormedMatches # {}
       THEN credentials.cred.result /\ FromLine(First(WellFormedMatches))
       ELSE /\ ~credentials.cred.result
            /\ SameCredentials(credentials.cred, credentials.before)
\* C26 as the program has it: a line of fewer than three fields is skipped;
\* a bad port or a bad bracket form does not make the program skip the
\* line, the port is then None; the credentials are those of the first line
\* of three fields or more whose ip is one of the node's service addresses,
\* and without such a line, or without a readable file, the result is
\* false and the three fields are unchanged.
C26_FirstMatchingLine ==
    FromFileDone =>
       IF credentials.file = "ok" /\ Matches # {}
       THEN /\ credentials.cred.result /\ FromLine(First(Matches))
            /\ LET f == CredLines[First(Matches)][1]
               IN credentials.cred.sys_ssh_port # <<>> =>
                     /\ \E t \in {<<"2">>, <<"3">>, <<"2", "3">>} :
                           /\ Len(f) > Len(t)
                           /\ SubSeq(f, Len(f) - Len(t) + 1, Len(f)) = t
                           /\ f[Len(f) - Len(t)] \in {":", "]"}
                           /\ credentials.cred.sys_ssh_port = int(t)
       ELSE /\ ~credentials.cred.result
            /\ SameCredentials(credentials.cred, credentials.before)
\* the second of two matching lines is not used, and a line with a bad port
\* is
C26_Witness ==
    /\ FromFileDone /\ Len(CredLines) = 2
    /\ Matches = {1, 2} /\ WellFormedMatches = {2}
    /\ CredLines[1][2] # CredLines[2][2]
    /\ credentials.before.sys_user_id # <<>>


(***************************************************************************)
(* HealthCheckController._do_default: the snapshots of the health command  *)
(* and the time and the count of the last collection.                      *)
(***************************************************************************)
\* time.time() when the shell starts, and the bound of the clock
StartTime == 100
MaxTime == 230
SnapCounts == {0, 1, 2}
NoInput == [snaps |-> -1, at |-> 0]

\* the test with >= in place of >
needs_collection_from_60(now, last_time, last_count, snap_count) ==
    (now - last_time >= 60) \/ last_count # snap_count

\* line 1928
needs_collection(now, last_time, last_count, snap_count) ==
    (now - last_time > 60) \/ last_count # snap_count

InitHealth ==
    /\ phase = "health"
    /\ pmap_info = [n \in Nodes |-> [err |-> FALSE, items |-> <<>>]]
    /\ namespace_stats = EmptyMap
    /\ versions = [n \in Nodes |-> <<3, 9, 0>>]
    /\ ns_info = EmptyMap
    /\ pmap_data = NoReport
    /\ node = NodeIdle
    /\ seed = <<>>
    /\ lastCall = <<>>
    /\ trace = Untraced
    /\ socket_pool = NoPool
    /\ callers = NoCallers
    /\ latency = NoLatency
    /\ replies = EmptyMap
    /\ snapshot = NoSnapshot
    /\ credentials = NoCredentials
    /\ health = [pc |-> "idle", now |-> StartTime, step |-> "none",
                 last_snapshot_collection_time |-> 0,
                 last_snapshot_count |-> 0,
                 snap_count |-> 0, sn_ct |-> 0, fresh |-> FALSE,
                 queries |-> 0, health_input |-> NoInput,
                 evaluated |-> NoInput]

\* time passes, also while the snapshots are taken (time.sleep, line 2078)
Tick(d) ==
    /\ phase = "health"
    /\ health.now + d <= MaxTime
    /\ health' = [health EXCEPT !.now = @ + d, !.step = "tick"]
    /\ UNCHANGED <<phase, pmapVars, nodeVars, trace, replies, poolVars,
                   latency, snapshot, credentials>>

\* the command with -n snap_count, up to the loop of line 1995; without a
\* collection it runs health_checker.execute on the stored input (line 2089)
HealthCommand(snap_count) ==
    /\ phase = "health" /\ health.pc = "idle"
    /\ IF needs_collection(health.now, health.last_snapshot_collection_time,
                           health.last_snapshot_count, snap_count)
       THEN health' = [health EXCEPT
                         !.pc = "collecting", !.step = "command",
                         !.snap_count = snap_count, !.sn_ct = 0,
                         !.fresh = TRUE, !.queries = 0,
                         !.evaluated = NoInput]
       ELSE health' = [health EXCEPT
                         !.step = "command",
                         !.snap_count = snap_count, !.sn_ct = 0,
                         !.fresh = FALSE, !.queries = 0,
                         !.evaluated = health.health_input]
    /\ UNCHANGED <<phase, pmapVars, nodeVars, trace, replies, poolVars,
                   latency, snapshot, credentials>>

\* one pass of the loop of lines 1995-2078: the cluster is queried
TakeSnapshot ==
    /\ phase = "health" /\ health.pc = "collecting"
    /\ health.sn_ct < health.snap_count
    /\ health' = [health EXCEPT !.sn_ct = @ + 1, !.queries = @ + 1,
                                !.step = "snapshot"]
    /\ UNCHANGED <<phase, pmapVars, nodeVars, trace, replies, poolVars,
                   latency, snapshot, credentials>>

\* an exception leaves the loop and the command
SnapshotRaises ==
    /\ phase = "health" /\ health.pc = "collecting"
    /\ health.sn_ct < health.snap_count
    /\ health' = [health EXCEPT !.pc = "idle", !.queries = @ + 1,
                                !.step = "raised"]
    /\ UNCHANGED <<phase, pmapVars, nodeVars, trace, replies, poolVars,
                   latency, snapshot, credentials>>

\* lines 2081-2089, after the loop
CollectionDone ==
    /\ phase = "health" /\ health.pc = "collecting"
    /\ ~(health.sn_ct < health.snap_count)
    /\ LET input == [snaps |-> health.sn_ct, at |-> health.now]
       IN health' = [health EXCEPT
                       !.pc = "idle", !.step = "done",
                       !.health_input = input,
                       !.last_snapshot_collection_time = health.now,
                       !.last_snapshot_count = health.snap_count,
                       !.evaluated = input]
    /\ UNCHANGED <<phase, pmapVars, nodeVars, trace, replies, poolVars,
                   latency, snapshot, credentials>>

NextHealth ==
    \/ \E d \in {30, 31} : Tick(d)
    \/ \E snap_count \in SnapCounts : HealthCommand(snap_count)
    \/ TakeSnapshot
    \/ SnapshotRaises
    \/ CollectionDone

SpecHealth == InitHealth /\ [][NextHealth]_vars

\* C30: the health command collects fresh snapshots iff more than 60
\* seconds have passed since the last completed collection or the requested
\* snapshot count differs from the count of the last collection; otherwise
\* it issues no cluster query and evaluates the stored health input.  A
\* fresh collection takes exactly snap_count snapshots, and
\* last_snapshot_collection_time and last_snapshot_count are updated only
\* when the collection has completed.
C30_FreshIffStale ==
    [][/\ health'.step = "command" =>
             /\ health'.fresh <=>
                   \/ health.now - health.last_snapshot_collection_time > 60
                   \/ health.last_snapshot_count # health'.snap_count
             /\ ~health'.fresh =>
                   /\ health'.pc = "idle" /\ health'.queries = 0
                   /\ health'.evaluated = health.health_input
                   /\ health'.health_input = health.health_input
       /\ health'.step = "done" =>
             /\ health.fresh
             /\ health'.queries = health.snap_count
             /\ health'.health_input.snaps = health.snap_count
             /\ health'.evaluated = health'.health_input
             /\ health'.last_snapshot_collection_time = health.now
             /\ health'.last_snapshot_count = health.snap_count
       /\ health'.step # "done" =>
             /\ health'.last_snapshot_collection_time =
                   health.last_snapshot_collection_time
             /\ health'.last_snapshot_count = health.last_snapshot_count
             /\ health'.health_input = health.health_input]_vars
\* a command 60 seconds after a collection of two snapshots has evaluated
\* the stored input
C30_Witness ==
    /\ phase = "health" /\ health.step = "command" /\ ~health.fresh
    /\ health.now - health.last_snapshot_collection_time = 60
    /\ health.evaluated.snaps = 2 /\ health.last_snapshot_count = 2

====
